---- MODULE Spec2Model ----
(***************************************************************************)
(* Model of shifts-gcal-connector: the reconciliation engine               *)
(* (SyncService.sync / processShift / deleteShift), the ledger             *)
(* (StateStore), the calendar sink gateway (CalendarClient) and the        *)
(* process entry point (main).                                             *)
(*                                                                         *)
(* One operating-system process runs at a time (cron).  A process is       *)
(* started, authenticates (which loads the ledger file), fetches the       *)
(* shifts, processes them one by one, sweeps the ledger for removed        *)
(* shifts, saves the ledger and exits.  The environment changes the        *)
(* upstream shift list between processes and may kill a running process.   *)
(*                                                                         *)
(* Spec starts without a ledger file.  LedgerSpec starts the process on a  *)
(* ledger file found on disk (absent, torn, legacy, current or newer       *)
(* schema version).  PureSpec applies one pure function (load, the source  *)
(* filters, hasShiftChanged, the sink gateway's calls) to bounded inputs.  *)
(***************************************************************************)
EXTENDS Integers, Sequences, FiniteSets, TLC

\* ------------------------------------------------------------------ bounds
\* Longest shift list the source returns to one run.
MaxLen == 2
\* Number of distinct modification instants of a shift.
MaxTime == 2
\* Number of ledger saves (the clock read by save() ticks once per save).
MaxSaves == 2

\* Number of ids a sink that assigns its own ids has for one requested id.
MaxAssigned == 2
\* Longest shift id given to generateEventId on its own.
MaxIdLen == 2

\* ------------------------------------------------------- program constants
CURRENT_VERSION == 1

\* ------------------------------------------------------------- data model
\* A shift id is a string: a sequence of characters.
ShiftIds == { <<"a", "-", "1">>, <<"B", "2">> }

\* Timestamp strings.  0 is the empty string; a string s >= 1 denotes the
\* instant (s + 1) \div 2, written in one of two textual forms (odd: with
\* milliseconds, even: without).  The source always writes the odd form.
DateOf(s) == (s + 1) \div 2
StampOf(t) == 2 * t - 1
SourceStamps == { StampOf(t) : t \in 1..MaxTime }

\* Shift (types: Shift), restricted to the fields the engine reads.
\* sharedShift is the presence of the payload.
Shift(id, stamp) ==
  [id |-> id, lastModifiedDateTime |-> stamp, sharedShift |-> TRUE]

\* The lists GraphClient.getMyShifts hands to sync: shifts that passed
\* isActiveUserShift and isInSyncWindow, so each carries a payload.
SourceShifts == { Shift(id, s) : id \in ShiftIds, s \in SourceStamps }

\* ------------------------------------------------------------ source filter
UserIds == {"u1", "u2"}

\* The two textual forms of the instant t.
TextForms(t) == {StampOf(t), StampOf(t) + 1}

\* Instants the sync window's ends (now, endDate) may be: Date objects.
Instants == 0..(MaxTime + 1)

\* Shift as the source's API returns it, with the fields the filters read;
\* startDateTime and endDateTime are the payload's (0 when it is absent).
ApiShift(userId, staged, present, start, end) ==
  [id |-> <<"B", "2">>, lastModifiedDateTime |-> StampOf(1), userId |-> userId,
   isStagedForDeletion |-> staged, sharedShift |-> present,
   startDateTime |-> IF present THEN start ELSE 0,
   endDateTime |-> IF present THEN end ELSE 0]

\* Mutant of isActiveUserShift: the owner not compared.
isActiveUserShiftAnyOwner(shift, userId) ==
  ~shift.isStagedForDeletion /\ shift.sharedShift

isActiveUserShift(shift, userId) ==
  shift.userId = userId /\ ~shift.isStagedForDeletion /\ shift.sharedShift

\* Mutant of isInSyncWindow: strict comparisons.
isInSyncWindowStrict(shift, nowDate, endDate) ==
  IF ~shift.sharedShift THEN FALSE
  ELSE LET shiftStart == DateOf(shift.startDateTime)
           shiftEnd == DateOf(shift.endDateTime)
       IN shiftEnd > nowDate /\ shiftStart < endDate

isInSyncWindow(shift, nowDate, endDate) ==
  IF ~shift.sharedShift THEN FALSE
  ELSE LET shiftStart == DateOf(shift.startDateTime)
           shiftEnd == DateOf(shift.endDateTime)
       IN shiftEnd >= nowDate /\ shiftStart <= endDate

\* Most pages the source splits its shift list into.
MaxPages == 2

\* No request of getMyShifts fails.
NoFault == [at |-> 0, kind |-> "none"]

\* getMyShifts: the filter applied to one page (response.value).
activeOnPage(page, userId) ==
  SelectSeq(page, LAMBDA shift : isActiveUserShift(shift, userId))

\* getMyShifts: allActiveShifts after the first page and the while loop
\* over @odata.nextLink; pages[k]'s link leads to pages[k + 1].
RECURSIVE allActiveShifts(_, _)
allActiveShifts(pages, userId) ==
  IF pages = <<>> THEN <<>>
  ELSE activeOnPage(Head(pages), userId) \o allActiveShifts(Tail(pages), userId)

\* Mutant of getMyShifts: the next-page links not followed.
getMyShiftsFirstPageOnly(pages, userId, nowDate, endDate, fault) ==
  LET active == activeOnPage(Head(pages), userId) IN
    [threw |-> FALSE,
     shiftsToSync |-> SelectSeq(active, LAMBDA shift : isInSyncWindow(shift, nowDate, endDate)),
     allActiveShiftIds |-> {active[i].id : i \in DOMAIN active}]

\* GraphClient.getMyShifts on the pages the source holds (at least one).
\* The requests are numbered as issued: 1 the first page, 2 the user
\* lookup (/me), k + 1 the page k >= 2; fault names the request that
\* fails, if any, and how.
getMyShifts(pages, userId, nowDate, endDate, fault) ==
  IF fault.at \in 1..(Len(pages) + 1)
  THEN [threw |-> fault.kind # "notFound", shiftsToSync |-> <<>>,
        allActiveShiftIds |-> {}]
  ELSE LET active == allActiveShifts(pages, userId) IN
         [threw |-> FALSE,
          shiftsToSync |-> SelectSeq(active, LAMBDA shift : isInSyncWindow(shift, nowDate, endDate)),
          allActiveShiftIds |-> {active[i].id : i \in DOMAIN active}]

\* --------------------------------------------------------------- mapper
IsAlnum(c) == c \in {"a", "b", "A", "B", "1", "2"}

ToLowerCase(c) == CASE c = "A" -> "a" [] c = "B" -> "b" [] OTHER -> c

RECURSIVE StripLower(_)
StripLower(s) ==
  IF s = <<>> THEN <<>>
  ELSE (IF IsAlnum(Head(s)) THEN <<ToLowerCase(Head(s))>> ELSE <<>>)
       \o StripLower(Tail(s))

\* Mutant of generateEventId: the case kept.
RECURSIVE StripOnly(_)
StripOnly(s) ==
  IF s = <<>> THEN <<>>
  ELSE (IF IsAlnum(Head(s)) THEN <<Head(s)>> ELSE <<>>) \o StripOnly(Tail(s))

generateEventIdKeepsCase(shiftId) == <<"s", "h", "i", "f", "t">> \o StripOnly(shiftId)

generateEventId(shiftId) == <<"s", "h", "i", "f", "t">> \o StripLower(shiftId)

\* Mutant of shiftToCalendarEvent: an event built without the payload.
shiftToCalendarEventAlways(shift) ==
  [mappable |-> TRUE, shiftId |-> shift.id,
   lastModified |-> shift.lastModifiedDateTime]

\* The calendar event built from a shift; mappable is FALSE for the null the
\* mapper returns when the payload is absent.
shiftToCalendarEvent(shift) ==
  IF ~shift.sharedShift
  THEN [mappable |-> FALSE, shiftId |-> <<>>, lastModified |-> 0]
  ELSE [mappable |-> TRUE, shiftId |-> shift.id,
        lastModified |-> shift.lastModifiedDateTime]

\* Mutants of hasShiftChanged: the comparison dropped; >= for >.
hasShiftChangedAlways(shift, lastModified) == TRUE

hasShiftChangedGe(shift, lastModified) ==
  IF lastModified = 0 THEN TRUE
  ELSE DateOf(shift.lastModifiedDateTime) >= DateOf(lastModified)

\* Mutant of hasShiftChanged: the strings compared, not the instants.
hasShiftChangedText(shift, lastModified) ==
  IF lastModified = 0 THEN TRUE
  ELSE shift.lastModifiedDateTime > lastModified

\* lastModified 0 stands for both undefined and the empty string (falsy).
hasShiftChanged(shift, lastModified) ==
  IF lastModified = 0 THEN TRUE
  ELSE DateOf(shift.lastModifiedDateTime) > DateOf(lastModified)

\* --------------------------------------------------------------- ledger
\* records is a function from the known shift ids to their records.
NoRecords == [i \in {} |-> [calendarEventId |-> <<>>, lastModified |-> 0]]

EMPTY_STATE == [version |-> CURRENT_VERSION, lastSync |-> 0, records |-> NoRecords]

hasRecord(st, shiftId) == shiftId \in DOMAIN st.records

getRecord(st, shiftId) == st.records[shiftId]

setRecord(st, shiftId, record) ==
  [st EXCEPT !.records =
     [i \in (DOMAIN st.records) \cup {shiftId} |->
        IF i = shiftId THEN record ELSE st.records[i]]]

deleteRecord(st, shiftId) ==
  [st EXCEPT !.records = [i \in (DOMAIN st.records) \ {shiftId} |-> st.records[i]]]

getAllShiftIds(st) == DOMAIN st.records

\* The keys of the JSON object a ledger file holds (SyncState).
Keys == {"version", "lastSync", "records"}

\* The ledger file: absent, holding a complete JSON document, or torn
\* (truncated or partly written, which JSON.parse rejects).  keys are the
\* keys the document has; content gives each present key its value (an
\* absent key is held at version 0, lastSync 0, no records).
MissingFile == [kind |-> "missing", content |-> EMPTY_STATE, keys |-> {}]
TornFile == [kind |-> "torn", content |-> EMPTY_STATE, keys |-> {}]
ParsedFile(keys, st) == [kind |-> "json", content |-> st, keys |-> keys]
JsonFile(st) == ParsedFile(Keys, st)

\* Mutant of isLegacyState: the version key alone decides.
isLegacyStateVersionOnly(f) == "version" \notin f.keys

\* isLegacyState, on a parsed JSON object.
isLegacyState(f) ==
  "lastSync" \in f.keys /\ "records" \in f.keys /\ "version" \notin f.keys

migrateFromLegacy(legacy) ==
  [version |-> CURRENT_VERSION, lastSync |-> legacy.lastSync,
   records |-> legacy.records]

\* Mutants of load: the version check dropped; ENOENT rethrown; every
\* parsed file migrated.
loadAnyVersion(f) ==
  IF f.kind = "missing"
  THEN [threw |-> FALSE, migrated |-> FALSE, state |-> EMPTY_STATE, keys |-> Keys]
  ELSE IF f.kind = "torn"
  THEN [threw |-> TRUE, migrated |-> FALSE, state |-> EMPTY_STATE, keys |-> Keys]
  ELSE IF isLegacyState(f)
  THEN [threw |-> FALSE, migrated |-> TRUE,
        state |-> migrateFromLegacy(f.content), keys |-> Keys]
  ELSE [threw |-> FALSE, migrated |-> FALSE, state |-> f.content, keys |-> f.keys]

loadMissingThrows(f) ==
  IF f.kind \in {"missing", "torn"}
  THEN [threw |-> TRUE, migrated |-> FALSE, state |-> EMPTY_STATE, keys |-> Keys]
  ELSE IF isLegacyState(f)
  THEN [threw |-> FALSE, migrated |-> TRUE,
        state |-> migrateFromLegacy(f.content), keys |-> Keys]
  ELSE IF "version" \in f.keys /\ f.content.version > CURRENT_VERSION
  THEN [threw |-> TRUE, migrated |-> FALSE, state |-> EMPTY_STATE, keys |-> Keys]
  ELSE [threw |-> FALSE, migrated |-> FALSE, state |-> f.content, keys |-> f.keys]

\* StateStore.load: the outcome of reading and parsing the file, up to the
\* save of a migration.  state is the in-memory ledger afterwards (the
\* initial EMPTY_STATE when load threw) and keys the keys that object has;
\* an absent version key reads as undefined, and undefined > 1 is false.
load(f) ==
  IF f.kind = "missing"
  THEN [threw |-> FALSE, migrated |-> FALSE, state |-> EMPTY_STATE, keys |-> Keys]
  ELSE IF f.kind = "torn"
  THEN [threw |-> TRUE, migrated |-> FALSE, state |-> EMPTY_STATE, keys |-> Keys]
  ELSE IF isLegacyState(f)
  THEN [threw |-> FALSE, migrated |-> TRUE,
        state |-> migrateFromLegacy(f.content), keys |-> Keys]
  ELSE IF "version" \in f.keys /\ f.content.version > CURRENT_VERSION
  THEN [threw |-> TRUE, migrated |-> FALSE, state |-> EMPTY_STATE, keys |-> Keys]
  ELSE [threw |-> FALSE, migrated |-> FALSE, state |-> f.content, keys |-> f.keys]

\* StateStore.save, up to the call of writeFile: the state it serialises.
saveState(st, clock) == [st EXCEPT !.lastSync = clock, !.version = CURRENT_VERSION]

\* Mutant of saveStatePreserved: lastSync stamped as in a plain save().
saveStateStamped(st, clock) == saveState(st, clock)

\* StateStore.save(true), up to the call of writeFile: lastSync is kept.
saveStatePreserved(st, clock) == [st EXCEPT !.version = CURRENT_VERSION]

\* ---------------------------------------------------------- calendar sink
\* What the sink does with the calls of one item: answer normally, or fail
\* one call (update, insert, delete) with an error other than 404.
SinkAnswers == {"none", "update", "insert", "delete"}

\* The id a sink that does not honour requested ids gives a new event.
sinkAssignedId(eventId) == <<"g">> \o eventId

\* The ids a sink that assigns a new id on every create has for eventId.
assignedId(eventId, k) == [i \in 1..k |-> "g"] \o eventId

\* Which of them are not on the calendar cal.
Free(cal, eventId) == {k \in 1..MaxAssigned : assignedId(eventId, k) \notin cal}

\* calendar.events.insert: the id in the response (response.data.id).  A
\* sink that does not honour the requested id either derives its id from
\* the request or, when fresh, assigns one no event has yet.
insertedId(cal, eventId, honours, fresh) ==
  IF honours THEN eventId
  ELSE IF ~fresh THEN sinkAssignedId(eventId)
  ELSE assignedId(eventId, CHOOSE k \in Free(cal, eventId) :
                             \A j \in Free(cal, eventId) : k <= j)

\* The sink has no id left to assign: its create fails.
exhausted(cal, eventId, honours, fresh) ==
  ~honours /\ fresh /\ Free(cal, eventId) = {}

\* One request to the sink's API and how the sink answered it.
apiCall(api, eventId, status) == [api |-> api, eventId |-> eventId, status |-> status]

\* Mutant of upsertEvent: events.insert only; the sink rejects a create for
\* an id it already holds.
upsertEventInsertsOnly(cal, eventId, answer, honours, fresh) ==
  IF answer # "none" \/ exhausted(cal, eventId, honours, fresh)
       \/ insertedId(cal, eventId, honours, fresh) \in cal
  THEN [threw |-> TRUE, id |-> eventId, calendar |-> cal,
        calls |-> <<apiCall("insert", eventId, "error")>>]
  ELSE [threw |-> FALSE, id |-> insertedId(cal, eventId, honours, fresh),
        calendar |-> cal \cup {insertedId(cal, eventId, honours, fresh)},
        calls |-> <<apiCall("insert", eventId, "ok")>>]

\* Mutant of upsertEvent: a create issued after any failure of the update.
upsertEventCreatesOnAnyError(cal, eventId, answer, honours, fresh) ==
  IF answer # "update" /\ eventId \in cal
  THEN [threw |-> FALSE, id |-> eventId, calendar |-> cal,
        calls |-> <<apiCall("update", eventId, "ok")>>]
  ELSE IF answer = "insert" \/ exhausted(cal, eventId, honours, fresh)
  THEN [threw |-> TRUE, id |-> eventId, calendar |-> cal,
        calls |-> <<apiCall("update", eventId, "404"),
                    apiCall("insert", eventId, "error")>>]
  ELSE [threw |-> FALSE, id |-> insertedId(cal, eventId, honours, fresh),
        calendar |-> cal \cup {insertedId(cal, eventId, honours, fresh)},
        calls |-> <<apiCall("update", eventId,
                            IF answer = "update" THEN "error" ELSE "404"),
                    apiCall("insert", eventId, "ok")>>]

\* CalendarClient.upsertEvent against the calendar cal (a set of event ids):
\* events.update by eventId; on 404, events.insert requesting eventId.
\* calls are the requests issued, in order.
upsertEvent(cal, eventId, answer, honours, fresh) ==
  IF answer = "update"
  THEN [threw |-> TRUE, id |-> eventId, calendar |-> cal,
        calls |-> <<apiCall("update", eventId, "error")>>]
  ELSE IF eventId \in cal
  THEN [threw |-> FALSE, id |-> eventId, calendar |-> cal,
        calls |-> <<apiCall("update", eventId, "ok")>>]
  ELSE IF answer = "insert" \/ exhausted(cal, eventId, honours, fresh)
  THEN [threw |-> TRUE, id |-> eventId, calendar |-> cal,
        calls |-> <<apiCall("update", eventId, "404"),
                    apiCall("insert", eventId, "error")>>]
  ELSE [threw |-> FALSE, id |-> insertedId(cal, eventId, honours, fresh),
        calendar |-> cal \cup {insertedId(cal, eventId, honours, fresh)},
        calls |-> <<apiCall("update", eventId, "404"),
                    apiCall("insert", eventId, "ok")>>]

\* Mutant of deleteEvent: the 404 rethrown like any other error.
deleteEventRethrowsAll(cal, eventId, answer) ==
  IF answer = "delete"
  THEN [threw |-> TRUE, calendar |-> cal,
        calls |-> <<apiCall("delete", eventId, "error")>>]
  ELSE IF eventId \notin cal
  THEN [threw |-> TRUE, calendar |-> cal,
        calls |-> <<apiCall("delete", eventId, "404")>>]
  ELSE [threw |-> FALSE, calendar |-> cal \ {eventId},
        calls |-> <<apiCall("delete", eventId, "ok")>>]

\* CalendarClient.deleteEvent: a 404 is swallowed, other errors rethrown.
deleteEvent(cal, eventId, answer) ==
  IF answer = "delete"
  THEN [threw |-> TRUE, calendar |-> cal,
        calls |-> <<apiCall("delete", eventId, "error")>>]
  ELSE IF eventId \notin cal
  THEN [threw |-> FALSE, calendar |-> cal,
        calls |-> <<apiCall("delete", eventId, "404")>>]
  ELSE [threw |-> FALSE, calendar |-> cal \ {eventId},
        calls |-> <<apiCall("delete", eventId, "ok")>>]

\* --------------------------------------------------------------- engine
\* Mutant of ZeroResult: a counter that does not start at zero.
ZeroResultOffByOne == [created |-> 0, updated |-> 0, deleted |-> 0, skipped |-> 1]

\* sync: the counters a run starts with.
ZeroResult == [created |-> 0, updated |-> 0, deleted |-> 0, skipped |-> 0]

\* Mutant of countedAs: the sink's serving call decides.
countedAsServed(existing, viaUpdate) == IF viaUpdate THEN "updated" ELSE "created"

\* processShift: the counter a synced shift goes to; existing is whether
\* the ledger had a record, viaUpdate whether events.update served the upsert.
countedAs(existing, viaUpdate) == IF existing THEN "updated" ELSE "created"

\* Mutant of recordFor: the record written without the modification time.
recordForUnstamped(createdId, shift) ==
  [calendarEventId |-> createdId, lastModified |-> 0]

\* Mutant of recordFor: the derived id stored instead of the returned one.
recordForDerived(createdId, shift) ==
  [calendarEventId |-> generateEventId(shift.id),
   lastModified |-> shift.lastModifiedDateTime]

\* processShift: the ledger record written after a successful upsert.
recordFor(createdId, shift) ==
  [calendarEventId |-> createdId, lastModified |-> shift.lastModifiedDateTime]

\* Mutant of eventIdToDelete: the id derived again from the shift id.
eventIdRederived(record, shiftId) == generateEventId(shiftId)

\* deleteShift: the event id handed to deleteEvent.
eventIdToDelete(record, shiftId) == record.calendarEventId

\* SyncService.processShift.  e is the engine's mutable context
\* [state, calendar, result, sinkLog, honours, fresh]; the value adds threw.
processShift(e, shift, dry, answer) ==
  LET eventId == generateEventId(shift.id)
      existing == hasRecord(e.state, shift.id)
      event == shiftToCalendarEvent(shift)
      skip == [e EXCEPT !.result.skipped = @ + 1] @@ [threw |-> FALSE]
      count(c, viaUpdate) ==
        IF countedAs(existing, viaUpdate) = "updated"
        THEN [c EXCEPT !.result.updated = @ + 1]
        ELSE [c EXCEPT !.result.created = @ + 1]
  IN IF existing /\ ~hasShiftChanged(shift, getRecord(e.state, shift.id).lastModified)
     THEN skip
     ELSE IF ~event.mappable THEN skip
     ELSE IF dry THEN count(e, existing) @@ [threw |-> FALSE]
     ELSE LET up == upsertEvent(e.calendar, eventId, answer, e.honours, e.fresh)
              logged == [e EXCEPT !.calendar = up.calendar,
                           !.sinkLog = Append(@, [op |-> "upsert", shiftId |-> shift.id,
                                                  eventId |-> eventId, ok |-> ~up.threw])]
          IN IF up.threw THEN logged @@ [threw |-> TRUE]
             ELSE count([logged EXCEPT !.state =
                           setRecord(@, shift.id, recordFor(up.id, shift))],
                        Len(up.calls) = 1)
                  @@ [threw |-> FALSE]

\* Mutant of deleteShift: the record deleted and counted before the sink
\* call's outcome is known.
deleteShiftForgets(e, shiftId, dry, answer) ==
  IF ~hasRecord(e.state, shiftId) THEN e @@ [threw |-> FALSE]
  ELSE IF dry THEN [e EXCEPT !.result.deleted = @ + 1] @@ [threw |-> FALSE]
  ELSE LET record == getRecord(e.state, shiftId)
           target == eventIdToDelete(record, shiftId)
           del == deleteEvent(e.calendar, target, answer)
       IN [e EXCEPT !.calendar = del.calendar,
                    !.sinkLog = Append(@, [op |-> "delete", shiftId |-> shiftId,
                                           eventId |-> target, ok |-> ~del.threw]),
                    !.state = deleteRecord(@, shiftId),
                    !.result.deleted = @ + 1] @@ [threw |-> del.threw]

\* SyncService.deleteShift.
deleteShift(e, shiftId, dry, answer) ==
  IF ~hasRecord(e.state, shiftId) THEN e @@ [threw |-> FALSE]
  ELSE IF dry THEN [e EXCEPT !.result.deleted = @ + 1] @@ [threw |-> FALSE]
  ELSE LET record == getRecord(e.state, shiftId)
           target == eventIdToDelete(record, shiftId)
           del == deleteEvent(e.calendar, target, answer)
           logged == [e EXCEPT !.calendar = del.calendar,
                        !.sinkLog = Append(@, [op |-> "delete", shiftId |-> shiftId,
                                               eventId |-> target,
                                               ok |-> ~del.threw])]
       IN IF del.threw THEN logged @@ [threw |-> TRUE]
          ELSE [logged EXCEPT !.state = deleteRecord(@, shiftId),
                              !.result.deleted = @ + 1] @@ [threw |-> FALSE]

\* How the source answers the requests of one getMyShifts.
SourceAnswers == {"ok", "notFound", "error"}

\* Mutant of getMyShiftsOutcome: a 404 rethrown like any other error.
getMyShiftsRethrows404(list, answer) ==
  [threw |-> answer # "ok", shifts |-> IF answer = "ok" THEN list ELSE <<>>]

\* GetMyShifts' try/catch as sync sees it: list is what the source's pages
\* give after the filters; a 404 (statusCode 404 or code NotFound) from any
\* request gives the empty list, another error is rethrown.
getMyShiftsOutcome(list, answer) ==
  [threw |-> answer = "error", shifts |-> IF answer = "ok" THEN list ELSE <<>>]

\* Mutant of afterItem: no try/catch, the error leaves sync.
afterItemNoCatch(threw, loop) == IF threw THEN "fatal" ELSE loop

\* Mutant of afterItem: after a failed item sync begins again.
afterItemStartsOver(threw, loop) == IF threw THEN "process" ELSE loop

\* Mutant of afterItem: a failed item ends the loop over the shifts.
afterItemAbandonsLoop(threw, loop) == IF threw THEN "sweep" ELSE loop

\* sync's try/catch around one item: where the run goes after the item.
afterItem(threw, loop) == loop

\* Mutant of sweepIds: no sweep when nothing was fetched.
sweepIdsUnlessEmpty(st, fetched) ==
  IF fetched = <<>> THEN {}
  ELSE {id \in getAllShiftIds(st) : id \notin {fetched[i].id : i \in DOMAIN fetched}}

\* Mutant of sweepIds: no deletion sweep.
sweepIdsNone(st, fetched) == {}

\* sync: the ids the deletion sweep visits.
sweepIds(st, fetched) ==
  {id \in getAllShiftIds(st) : id \notin {fetched[i].id : i \in DOMAIN fetched}}

\* Mutant of afterSweep: save not guarded by dryRun.
afterSweepSaves(dry) == "save"

\* sync: what follows the sweep.
afterSweep(dry) == IF dry THEN "report" ELSE "save"

\* Mutant of exitStatus: the error list ignored.
exitStatusZero(errs) == 0

\* main: the process's exit status once sync returned its result.
exitStatus(errs) == IF Len(errs) > 0 THEN 1 ELSE 0

\* ------------------------------------------------------------------ state
VARIABLES
  upstream,   \* the shift list the source returns now
  file,       \* the ledger file
  calendar,   \* the event ids on the calendar
  honoursIds, \* whether the sink's insert keeps the requested event id
  now,        \* the clock read by save()
  pc,         \* where the process is: off, auth, fetch, process, sweep, save,
              \* writing, report, fatal, exited
  dryRun,     \* SyncOptions.dryRun of the running process
  state,      \* StateStore.state
  shifts,     \* sync: the fetched list
  idx,        \* sync: position of the for-of loop over shifts
  pending,    \* sync: ledger ids the sweep has still to visit
  result,     \* SyncResult counts
  errors,     \* SyncResult.errors
  sinkLog,    \* the sink calls (upsertEvent, deleteEvent) of this run
  exitCode,   \* the process's exit status; -1 while none
  reported,   \* whether the process reached the report step
  prev,       \* the run before this one, when nothing changed in between
  applied,    \* the last application of a pure function: name, arguments, value
  freshIds,   \* whether a sink that assigns its own ids assigns a new one per create
  sourceAnswer, \* how the source answers getMyShifts: ok, notFound, error
  sinkFaulty, \* whether the sink may fail a call with an error other than 404
  other       \* the memory of a second process of the tool, while it waits

vars == <<upstream, file, calendar, honoursIds, now, pc, dryRun, state, shifts, idx, pending,
          result, errors, sinkLog, exitCode, reported, prev, applied,
          freshIds, sourceAnswer, sinkFaulty, other>>

NoPrev == [kind |-> "none", result |-> ZeroResult, nerrors |-> 0]

NotApplied == [fn |-> "none"]

\* The memory of a process: main's and SyncService's variables.
memory == [pc |-> pc, dryRun |-> dryRun, state |-> state, shifts |-> shifts,
           idx |-> idx, pending |-> pending, result |-> result,
           errors |-> errors, sinkLog |-> sinkLog, exitCode |-> exitCode,
           reported |-> reported, prev |-> prev]

\* The memory of a process that was never started.
NoOther == [pc |-> "off", dryRun |-> FALSE, state |-> EMPTY_STATE, shifts |-> <<>>,
            idx |-> 1, pending |-> {}, result |-> ZeroResult,
            errors |-> <<>>, sinkLog |-> <<>>, exitCode |-> -1,
            reported |-> FALSE, prev |-> NoPrev]

\* The failures the sink may answer a call with.
answersOf(faulty) == IF faulty THEN SinkAnswers ELSE {"none"}

ctx == [state |-> state, calendar |-> calendar, result |-> result,
        sinkLog |-> sinkLog, honours |-> honoursIds,
        fresh |-> freshIds]

Init ==
  /\ upstream = <<>>
  /\ file = MissingFile
  /\ calendar = {}
  /\ honoursIds \in BOOLEAN
  /\ now = 0
  /\ pc = "off"
  /\ dryRun = FALSE
  /\ state = EMPTY_STATE
  /\ shifts = <<>>
  /\ idx = 1
  /\ pending = {}
  /\ result = ZeroResult
  /\ errors = <<>>
  /\ sinkLog = <<>>
  /\ exitCode = -1
  /\ reported = FALSE
  /\ prev = NoPrev
  /\ applied = NotApplied
  /\ sinkFaulty = TRUE
  /\ other = NoOther
  /\ freshIds = FALSE
  /\ sourceAnswer = "ok"

\* The memory of a process that is not running.
NoProcess ==
  /\ dryRun' = FALSE
  /\ state' = EMPTY_STATE
  /\ shifts' = <<>>
  /\ idx' = 1
  /\ pending' = {}
  /\ result' = ZeroResult
  /\ errors' = <<>>
  /\ sinkLog' = <<>>
  /\ exitCode' = -1
  /\ reported' = FALSE
  /\ prev' = NoPrev

Idle == pc \in {"off", "exited"}

\* ------------------------------------------------------------ environment
\* Upstream edits happen between runs: a shift list is fixed within a run.
\* The stamps a new entry for id may carry: a shift listed twice is the same
\* shift, so it carries the stamp of the entry already there.
stampsFor(id) ==
  IF \E i \in DOMAIN upstream : upstream[i].id = id
  THEN {upstream[i].lastModifiedDateTime : i \in {j \in DOMAIN upstream : upstream[j].id = id}}
  ELSE SourceStamps

AddShift ==
  /\ Idle /\ Len(upstream) < MaxLen
  /\ \E id \in ShiftIds : \E s \in stampsFor(id) :
       upstream' = Append(upstream, Shift(id, s))
  /\ pc' = "off" /\ NoProcess
  /\ UNCHANGED <<sinkFaulty, other, applied, freshIds, sourceAnswer, file, calendar, honoursIds, now>>

\* A shift is edited upstream: its modification time moves forward.
TouchShift ==
  /\ Idle
  /\ \E k \in DOMAIN upstream :
       /\ DateOf(upstream[k].lastModifiedDateTime) < MaxTime
       /\ upstream' = [i \in DOMAIN upstream |->
                         IF upstream[i].id = upstream[k].id
                         THEN [upstream[i] EXCEPT !.lastModifiedDateTime =
                                 StampOf(DateOf(@) + 1)]
                         ELSE upstream[i]]
  /\ pc' = "off" /\ NoProcess
  /\ UNCHANGED <<sinkFaulty, other, applied, freshIds, sourceAnswer, file, calendar, honoursIds, now>>

\* A shift leaves the list: removed upstream, or out of the sync window.
RemoveShift ==
  /\ Idle
  /\ \E i \in DOMAIN upstream :
       upstream' = SubSeq(upstream, 1, i - 1) \o SubSeq(upstream, i + 1, Len(upstream))
  /\ pc' = "off" /\ NoProcess
  /\ UNCHANGED <<sinkFaulty, other, applied, freshIds, sourceAnswer, file, calendar, honoursIds, now>>

\* The source starts or stops failing (team removed, outage) between runs.
SetSourceAnswer ==
  /\ Idle
  /\ \E a \in SourceAnswers \ {sourceAnswer} : sourceAnswer' = a
  /\ pc' = "off" /\ NoProcess
  /\ UNCHANGED <<sinkFaulty, other, applied, freshIds, upstream, file, calendar, honoursIds, now>>

\* The process is killed: its memory is lost; a file being written stays torn.
Kill ==
  /\ ~Idle
  /\ pc' = "off" /\ NoProcess
  /\ UNCHANGED <<sinkFaulty, other, applied, freshIds, sourceAnswer, upstream, file, calendar, honoursIds, now>>

\* ---------------------------------------------------------------- process
\* main: a new process starts (cron or the command line).
Start ==
  /\ Idle /\ now < MaxSaves
  /\ \E dry \in BOOLEAN : dryRun' = dry
  /\ pc' = "auth"
  /\ prev' = IF pc = "exited" /\ reported
             THEN [kind |-> IF dryRun THEN "dry" ELSE "real",
                   result |-> result, nerrors |-> Len(errors)]
             ELSE NoPrev
  /\ state' = EMPTY_STATE /\ shifts' = <<>> /\ idx' = 1 /\ pending' = {}
  /\ result' = ZeroResult /\ errors' = <<>> /\ sinkLog' = <<>>
  /\ exitCode' = -1 /\ reported' = FALSE
  /\ UNCHANGED <<sinkFaulty, other, applied, freshIds, sourceAnswer, upstream, file, calendar, honoursIds, now>>

\* SyncService.authenticate: stateStore.load().  A legacy file is migrated
\* and load calls save(true), whose writeFile opens the file, truncating it.
Authenticate ==
  /\ pc = "auth"
  /\ LET l == load(file) IN
       /\ state' = IF l.migrated THEN saveStatePreserved(l.state, now + 1) ELSE l.state
       /\ file' = IF l.migrated THEN TornFile ELSE file
       /\ pc' = IF l.threw THEN "fatal"
                ELSE IF l.migrated THEN "migrating" ELSE "fetch"
  /\ UNCHANGED <<sinkFaulty, other, applied, freshIds, sourceAnswer, upstream, calendar, honoursIds, now, dryRun, shifts, idx, pending,
                 result, errors, sinkLog, exitCode, reported, prev>>

\* StateStore.load: the writeFile of the migration's save(true) has written
\* the whole document; load returns.
MigrationSaveEnd ==
  /\ pc = "migrating"
  /\ file' = JsonFile(state)
  /\ pc' = "fetch"
  /\ UNCHANGED <<sinkFaulty, other, applied, freshIds, sourceAnswer, upstream, calendar, honoursIds, now, dryRun, state, shifts, idx, pending,
                 result, errors, sinkLog, exitCode, reported, prev>>

\* sync: getMyShifts; an error it throws leaves sync.
Fetch ==
  /\ pc = "fetch"
  /\ LET f == getMyShiftsOutcome(upstream, sourceAnswer) IN
       /\ shifts' = f.shifts
       /\ pc' = IF f.threw THEN "fatal" ELSE "process"
  /\ idx' = 1
  /\ UNCHANGED <<sinkFaulty, other, applied, freshIds, sourceAnswer, upstream, file, calendar, honoursIds, now, dryRun, state, pending,
                 result, errors, sinkLog, exitCode, reported, prev>>

\* sync: one iteration of the loop over the fetched shifts.
ProcessShift ==
  /\ pc = "process" /\ idx <= Len(shifts)
  /\ \E answer \in answersOf(sinkFaulty) :
       LET r == processShift(ctx, shifts[idx], dryRun, answer) IN
         /\ state' = r.state
         /\ calendar' = r.calendar
         /\ result' = r.result
         /\ sinkLog' = r.sinkLog
         /\ errors' = IF r.threw
                      THEN Append(errors, [op |-> "sync", id |-> shifts[idx].id])
                      ELSE errors
         /\ pc' = afterItem(r.threw, "process")
  /\ idx' = idx + 1
  /\ UNCHANGED <<sinkFaulty, other, applied, freshIds, sourceAnswer, upstream, file, honoursIds, now, dryRun, shifts, pending, exitCode, reported, prev>>

\* sync: the loop over the shifts is over; read the ledger's ids.
BeginSweep ==
  /\ pc = "process" /\ idx > Len(shifts)
  /\ pending' = sweepIds(state, shifts)
  /\ pc' = "sweep"
  /\ UNCHANGED <<sinkFaulty, other, applied, freshIds, sourceAnswer, upstream, file, calendar, honoursIds, now, dryRun, state, shifts, idx,
                 result, errors, sinkLog, exitCode, reported, prev>>

\* sync: one iteration of the deletion sweep.
DeleteShift ==
  /\ pc = "sweep"
  /\ \E shiftId \in pending, answer \in answersOf(sinkFaulty) :
       LET r == deleteShift(ctx, shiftId, dryRun, answer) IN
         /\ state' = r.state
         /\ calendar' = r.calendar
         /\ result' = r.result
         /\ sinkLog' = r.sinkLog
         /\ errors' = IF r.threw
                      THEN Append(errors, [op |-> "delete", id |-> shiftId])
                      ELSE errors
         /\ pending' = pending \ {shiftId}
         /\ pc' = afterItem(r.threw, "sweep")
  /\ UNCHANGED <<sinkFaulty, other, applied, freshIds, sourceAnswer, upstream, file, honoursIds, now, dryRun, shifts, idx, exitCode, reported, prev>>

EndSweep ==
  /\ pc = "sweep" /\ pending = {}
  /\ pc' = afterSweep(dryRun)
  /\ UNCHANGED <<sinkFaulty, other, applied, freshIds, sourceAnswer, upstream, file, calendar, honoursIds, now, dryRun, state, shifts, idx, pending,
                 result, errors, sinkLog, exitCode, reported, prev>>

\* StateStore.save: lastSync and version are set and writeFile opens the
\* file, truncating it.
SaveBegin ==
  /\ pc = "save"
  /\ now' = now + 1
  /\ state' = saveState(state, now + 1)
  /\ file' = TornFile
  /\ pc' = "writing"
  /\ UNCHANGED <<sinkFaulty, other, applied, freshIds, sourceAnswer, upstream, calendar, honoursIds, dryRun, shifts, idx, pending,
                 result, errors, sinkLog, exitCode, reported, prev>>

\* StateStore.save: writeFile has written the whole document.
SaveEnd ==
  /\ pc = "writing"
  /\ file' = JsonFile(state)
  /\ pc' = "report"
  /\ UNCHANGED <<sinkFaulty, other, applied, freshIds, sourceAnswer, upstream, calendar, honoursIds, now, dryRun, state, shifts, idx, pending,
                 result, errors, sinkLog, exitCode, reported, prev>>

\* sync returns its result; main sets the exit status.
Report ==
  /\ pc = "report"
  /\ reported' = TRUE
  /\ exitCode' = exitStatus(errors)
  /\ pc' = "exited"
  /\ UNCHANGED <<sinkFaulty, other, applied, freshIds, sourceAnswer, upstream, file, calendar, honoursIds, now, dryRun, state, shifts, idx, pending,
                 result, errors, sinkLog, prev>>

\* main's catch: an error out of authenticate or sync ends the process.
Fatal ==
  /\ pc = "fatal"
  /\ exitCode' = 1
  /\ pc' = "exited"
  /\ UNCHANGED <<sinkFaulty, other, applied, freshIds, sourceAnswer, upstream, file, calendar, honoursIds, now, dryRun, state, shifts, idx, pending,
                 result, errors, sinkLog, reported, prev>>

Next ==
  \/ AddShift \/ TouchShift \/ RemoveShift \/ Kill
  \/ Start \/ Authenticate \/ Fetch \/ ProcessShift \/ BeginSweep
  \/ DeleteShift \/ EndSweep \/ SaveBegin \/ SaveEnd \/ Report \/ Fatal

Spec == Init /\ [][Next]_vars

\* ------------------------------------------- runs on a ledger file found
\* Highest schema version a ledger file found on disk carries.
MaxVersion == 2

\* Records a ledger file found on disk holds.
FileRecords ==
  { NoRecords,
    [i \in {<<"B", "2">>} |->
       [calendarEventId |-> generateEventId(i), lastModified |-> StampOf(1)]] }

\* Ledger files the program or its legacy release wrote, or one torn by a
\* killed save: each document has the lastSync and records keys.
LedgerFiles ==
  {MissingFile, TornFile}
    \cup { ParsedFile({"lastSync", "records"},
                      [version |-> 0, lastSync |-> t, records |-> r]) :
             t \in 0..1, r \in FileRecords }
    \cup { JsonFile([version |-> v, lastSync |-> t, records |-> r]) :
             v \in 1..MaxVersion, t \in 0..1, r \in FileRecords }

\* The process is started on a ledger file found on disk; the calendar
\* holds the events the file's records name; the source lists at most one
\* shift, which may be edited or removed, and may fail.
LedgerInit ==
  /\ file \in LedgerFiles
  /\ upstream \in {<<>>} \cup { <<s>> : s \in SourceShifts }
  /\ calendar = {file.content.records[i].calendarEventId :
                   i \in DOMAIN file.content.records}
  /\ honoursIds \in BOOLEAN
  /\ freshIds \in (IF honoursIds THEN {FALSE} ELSE BOOLEAN)
  /\ now = file.content.lastSync
  /\ pc = "off"
  /\ dryRun = FALSE
  /\ state = EMPTY_STATE
  /\ shifts = <<>>
  /\ idx = 1
  /\ pending = {}
  /\ result = ZeroResult
  /\ errors = <<>>
  /\ sinkLog = <<>>
  /\ exitCode = -1
  /\ reported = FALSE
  /\ prev = NoPrev
  /\ applied = NotApplied
  /\ sinkFaulty = TRUE
  /\ other = NoOther
  /\ sourceAnswer = "ok"

LedgerNext ==
  \/ TouchShift \/ RemoveShift \/ SetSourceAnswer \/ Kill
  \/ Start \/ Authenticate \/ MigrationSaveEnd \/ Fetch \/ ProcessShift \/ BeginSweep
  \/ DeleteShift \/ EndSweep \/ SaveBegin \/ SaveEnd \/ Report \/ Fatal

LedgerSpec == LedgerInit /\ [][LedgerNext]_vars

\* ------------------------------------------- runs without end
\* main, started once the clock has reached MaxSaves, the last instant the
\* model tells apart: the runs from then on are not counted.
StartAtHorizon ==
  /\ Idle /\ now = MaxSaves
  /\ \E dry \in BOOLEAN : dryRun' = dry
  /\ pc' = "auth"
  /\ prev' = IF pc = "exited" /\ reported
             THEN [kind |-> IF dryRun THEN "dry" ELSE "real",
                   result |-> result, nerrors |-> Len(errors)]
             ELSE NoPrev
  /\ state' = EMPTY_STATE /\ shifts' = <<>> /\ idx' = 1 /\ pending' = {}
  /\ result' = ZeroResult /\ errors' = <<>> /\ sinkLog' = <<>>
  /\ exitCode' = -1 /\ reported' = FALSE
  /\ UNCHANGED <<sinkFaulty, other, applied, freshIds, sourceAnswer, upstream, file, calendar, honoursIds, now>>

\* StateStore.save at that instant: lastSync is set to it and writeFile
\* opens the file, truncating it.
SaveBeginAtHorizon ==
  /\ pc = "save" /\ now = MaxSaves
  /\ state' = saveState(state, now)
  /\ file' = TornFile
  /\ pc' = "writing"
  /\ UNCHANGED <<sinkFaulty, other, applied, freshIds, sourceAnswer, upstream, calendar, honoursIds, now, dryRun, shifts, idx, pending,
                 result, errors, sinkLog, exitCode, reported, prev>>

\* The process is started again and again on a ledger file found on disk,
\* never killed; the source lists at most one shift and does not change.
LiveInit ==
  /\ file \in LedgerFiles
  /\ upstream \in {<<>>} \cup { <<s>> : s \in SourceShifts }
  /\ calendar = {file.content.records[i].calendarEventId :
                   i \in DOMAIN file.content.records}
  /\ honoursIds \in BOOLEAN
  /\ freshIds = FALSE
  /\ now = MaxSaves
  /\ pc = "off"
  /\ dryRun = FALSE
  /\ state = EMPTY_STATE
  /\ shifts = <<>>
  /\ idx = 1
  /\ pending = {}
  /\ result = ZeroResult
  /\ errors = <<>>
  /\ sinkLog = <<>>
  /\ exitCode = -1
  /\ reported = FALSE
  /\ prev = NoPrev
  /\ applied = NotApplied
  /\ sinkFaulty = TRUE
  /\ other = NoOther
  /\ sourceAnswer = "ok"

LiveNext ==
  \/ StartAtHorizon \/ Authenticate \/ MigrationSaveEnd \/ Fetch
  \/ ProcessShift \/ BeginSweep \/ DeleteShift \/ EndSweep
  \/ SaveBeginAtHorizon \/ SaveEnd \/ Report \/ Fatal

\* A step of a started process: every call it awaits returns or fails.
RunStep ==
  \/ Authenticate \/ MigrationSaveEnd \/ Fetch
  \/ ProcessShift \/ BeginSweep \/ DeleteShift \/ EndSweep
  \/ SaveBeginAtHorizon \/ SaveEnd \/ Report \/ Fatal

\* A real run is started.
StartReal == StartAtHorizon /\ ~dryRun'

\* The upsert of a real run for the shift id returns without error.
UpsertSucceeds(id) ==
  /\ ~dryRun /\ idx <= Len(shifts) /\ shifts[idx].id = id
  /\ ProcessShift /\ errors' = errors

\* The delete of a real run for the ledger id returns without error.
DeleteSucceeds(id) ==
  /\ ~dryRun /\ id \in pending
  /\ DeleteShift /\ id \notin pending' /\ errors' = errors

\* Calls return, real runs keep being started, and a sink call for an item
\* that is attempted again and again does not fail for ever.
LiveSpec ==
  /\ LiveInit /\ [][LiveNext]_vars
  /\ WF_vars(RunStep)
  /\ SF_vars(StartReal)
  /\ \A id \in ShiftIds : SF_vars(UpsertSucceeds(id)) /\ SF_vars(DeleteSucceeds(id))

\* ------------------------------------- runs that are never killed
\* Shift ids that differ in case only, next to the ids of ShiftIds.
MirrorIds == ShiftIds \cup { <<"a">>, <<"A">> }

\* The lists of at most MaxLen shifts with distinct ids the source may give.
MirrorLists ==
  {<<>>} \cup { <<s>> : s \in { Shift(id, st) : id \in MirrorIds, st \in SourceStamps } }
    \cup { <<Shift(p[1], s), Shift(p[2], t)>> :
             p \in {q \in MirrorIds \X MirrorIds : q[1] # q[2]},
             s \in SourceStamps, t \in SourceStamps }

\* No ledger file, an empty calendar, a sink that honours the requested
\* ids; the source lists some shifts, which are then edited or removed;
\* every process runs to its end.
MirrorInit ==
  /\ upstream \in { l \in MirrorLists : Len(l) <= MaxLen }
  /\ file = MissingFile
  /\ calendar = {}
  /\ honoursIds = TRUE
  /\ now = 0
  /\ pc = "off"
  /\ dryRun = FALSE
  /\ state = EMPTY_STATE
  /\ shifts = <<>>
  /\ idx = 1
  /\ pending = {}
  /\ result = ZeroResult
  /\ errors = <<>>
  /\ sinkLog = <<>>
  /\ exitCode = -1
  /\ reported = FALSE
  /\ prev = NoPrev
  /\ applied = NotApplied
  /\ sinkFaulty = TRUE
  /\ other = NoOther
  /\ freshIds = FALSE
  /\ sourceAnswer = "ok"

MirrorNext ==
  \/ TouchShift \/ RemoveShift
  \/ Start \/ Authenticate \/ Fetch \/ ProcessShift \/ BeginSweep
  \/ DeleteShift \/ EndSweep \/ SaveBegin \/ SaveEnd \/ Report

MirrorSpec == MirrorInit /\ [][MirrorNext]_vars

\* ------------------------------------- runs killed and run again
\* The runs of Spec against a sink that honours the requested ids and
\* fails no call: an error a run records can only come from what an
\* earlier, killed run left behind.
RerunInit ==
  /\ upstream = <<>>
  /\ file = MissingFile
  /\ calendar = {}
  /\ honoursIds = TRUE
  /\ now = 0
  /\ pc = "off"
  /\ dryRun = FALSE
  /\ state = EMPTY_STATE
  /\ shifts = <<>>
  /\ idx = 1
  /\ pending = {}
  /\ result = ZeroResult
  /\ errors = <<>>
  /\ sinkLog = <<>>
  /\ exitCode = -1
  /\ reported = FALSE
  /\ prev = NoPrev
  /\ applied = NotApplied
  /\ sinkFaulty = FALSE
  /\ other = NoOther
  /\ freshIds = FALSE
  /\ sourceAnswer = "ok"

RerunSpec == RerunInit /\ [][Next]_vars

\* ------------------------------------------------ two processes
\* The scheduler takes the running process off the processor and puts the
\* other one on: the actions of main and sync then act on that process's
\* memory, against the same ledger file, calendar and source.
Switch ==
  /\ other' = memory
  /\ pc' = other.pc /\ dryRun' = other.dryRun /\ state' = other.state
  /\ shifts' = other.shifts /\ idx' = other.idx /\ pending' = other.pending
  /\ result' = other.result /\ errors' = other.errors
  /\ sinkLog' = other.sinkLog /\ exitCode' = other.exitCode
  /\ reported' = other.reported /\ prev' = other.prev
  /\ UNCHANGED <<sinkFaulty, applied, freshIds, sourceAnswer, upstream, file, calendar,
                 honoursIds, now>>

\* No ledger file, an empty calendar, a sink that honours the requested
\* ids and fails no call; the source lists one shift, which may be
\* removed; two processes of the tool, neither started.
OverlapInit ==
  /\ upstream \in { <<sh>> : sh \in SourceShifts }
  /\ file = MissingFile
  /\ calendar = {}
  /\ honoursIds = TRUE
  /\ now = 0
  /\ pc = "off"
  /\ dryRun = FALSE
  /\ state = EMPTY_STATE
  /\ shifts = <<>>
  /\ idx = 1
  /\ pending = {}
  /\ result = ZeroResult
  /\ errors = <<>>
  /\ sinkLog = <<>>
  /\ exitCode = -1
  /\ reported = FALSE
  /\ prev = NoPrev
  /\ applied = NotApplied
  /\ sinkFaulty = FALSE
  /\ other = NoOther
  /\ freshIds = FALSE
  /\ sourceAnswer = "ok"

OverlapNext ==
  \/ Switch \/ RemoveShift
  \/ Start \/ Authenticate \/ Fetch \/ ProcessShift \/ BeginSweep
  \/ DeleteShift \/ EndSweep \/ SaveBegin \/ SaveEnd \/ Report \/ Fatal

OverlapSpec == OverlapInit /\ [][OverlapNext]_vars

\* ------------------------------------------- pure functions, applied
engineVars == <<sinkFaulty, other, freshIds, sourceAnswer, upstream, file, calendar, honoursIds, now, pc, dryRun, state, shifts, idx,
                pending, result, errors, sinkLog, exitCode, reported, prev>>

\* Every JSON object a ledger file may hold, with any subset of the keys.
ParsedFiles ==
  { ParsedFile(k, [version |-> IF "version" \in k THEN v ELSE 0,
                   lastSync |-> IF "lastSync" \in k THEN t ELSE 0,
                   records |-> IF "records" \in k THEN r ELSE NoRecords]) :
      k \in SUBSET Keys, v \in 1..MaxVersion, t \in 0..1, r \in FileRecords }

\* One function is applied, once, to arguments drawn from the bounded sets.
PureInit ==
  /\ upstream = <<>>
  /\ file = MissingFile
  /\ calendar = {}
  /\ honoursIds = TRUE
  /\ now = 0
  /\ pc = "off"
  /\ dryRun = FALSE
  /\ state = EMPTY_STATE
  /\ shifts = <<>>
  /\ idx = 1
  /\ pending = {}
  /\ result = ZeroResult
  /\ errors = <<>>
  /\ sinkLog = <<>>
  /\ exitCode = -1
  /\ reported = FALSE
  /\ prev = NoPrev
  /\ applied = NotApplied
  /\ sinkFaulty = TRUE
  /\ other = NoOther
  /\ freshIds = FALSE
  /\ sourceAnswer = "ok"

ApplyLoad ==
  /\ applied.fn = "none"
  /\ \E f \in ParsedFiles \cup {MissingFile, TornFile} :
       applied' = [fn |-> "load", arg |-> f, value |-> load(f)]
  /\ UNCHANGED engineVars

ApplyIsActiveUserShift ==
  /\ applied.fn = "none"
  /\ \E u \in UserIds, d \in BOOLEAN, p \in BOOLEAN, owner \in UserIds :
       LET shift == ApiShift(u, d, p, StampOf(1), StampOf(1)) IN
         applied' = [fn |-> "isActiveUserShift",
                     arg |-> [shift |-> shift, userId |-> owner],
                     value |-> isActiveUserShift(shift, owner)]
  /\ UNCHANGED engineVars

\* start and end are the instants the payload's two timestamps denote.
ApplyIsInSyncWindow ==
  /\ applied.fn = "none"
  /\ \E u \in UserIds, p \in BOOLEAN, start \in 1..MaxTime, end \in 1..MaxTime,
        nowDate \in Instants, endDate \in Instants :
       \E st \in TextForms(start), en \in TextForms(end) :
         LET shift == ApiShift(u, FALSE, p, st, en) IN
           applied' = [fn |-> "isInSyncWindow",
                       arg |-> [shift |-> shift, now |-> nowDate, endDate |-> endDate,
                                start |-> start, end |-> end],
                       value |-> isInSyncWindow(shift, nowDate, endDate)]
  /\ UNCHANGED engineVars

\* known says whether a prior timestamp is given; modified and last are the
\* instants the two timestamps denote.
ApplyHasShiftChanged ==
  /\ applied.fn = "none"
  /\ \E id \in ShiftIds, modified \in 1..MaxTime, last \in 1..MaxTime, known \in BOOLEAN :
       \E m \in TextForms(modified), l \in TextForms(last) :
         LET shift == Shift(id, m)
             lastModified == IF known THEN l ELSE 0
         IN applied' = [fn |-> "hasShiftChanged",
                        arg |-> [shift |-> shift, lastModified |-> lastModified,
                                 known |-> known, modified |-> modified,
                                 last |-> IF known THEN last ELSE 0],
                        value |-> hasShiftChanged(shift, lastModified)]
  /\ UNCHANGED engineVars

\* Event ids the calendar may hold when the gateway is called.
EventIds == { generateEventId(i) : i \in ShiftIds }

ApplyUpsertEvent ==
  /\ applied.fn = "none"
  /\ \E cal \in SUBSET EventIds, eventId \in EventIds,
        answer \in {"none", "update", "insert"}, honours \in BOOLEAN :
       applied' = [fn |-> "upsertEvent",
                   arg |-> [calendar |-> cal, eventId |-> eventId,
                            answer |-> answer, honours |-> honours],
                   value |-> upsertEvent(cal, eventId, answer, honours, FALSE)]
  /\ UNCHANGED engineVars

\* deleteEvent called twice in a row with the same event id.
ApplyDeleteEvent ==
  /\ applied.fn = "none"
  /\ \E cal \in SUBSET EventIds, eventId \in EventIds,
        first \in {"none", "delete"}, second \in {"none", "delete"} :
       LET one == deleteEvent(cal, eventId, first)
           two == deleteEvent(one.calendar, eventId, second)
       IN applied' = [fn |-> "deleteEvent",
                      arg |-> [calendar |-> cal, eventId |-> eventId,
                               first |-> first, second |-> second],
                      value |-> <<one, two>>]
  /\ UNCHANGED engineVars

\* Characters of shift ids: letters in both cases, a digit, punctuation.
IdChars == {"a", "A", "1", "-"}

\* Every shift id of at most MaxIdLen characters, the empty one included.
IdStrings == UNION { [1..n -> IdChars] : n \in 0..MaxIdLen }

\* generateEventId called on a shift id, again on the same id, and on a
\* second id.
ApplyGenerateEventId ==
  /\ applied.fn = "none"
  /\ \E a \in IdStrings, b \in IdStrings :
       applied' = [fn |-> "generateEventId",
                   arg |-> [a |-> a, b |-> b],
                   value |-> [a |-> generateEventId(a), again |-> generateEventId(a),
                              b |-> generateEventId(b)]]
  /\ UNCHANGED engineVars

\* Shifts on the source's pages, for the owner u1 and the window [2, 3]:
\* in the window, ended before it, another user's, staged for deletion,
\* without payload.
PagedShifts ==
  { [ApiShift("u1", FALSE, TRUE, StampOf(2), StampOf(2)) EXCEPT !.id = <<"a", "-", "1">>],
    [ApiShift("u1", FALSE, TRUE, StampOf(1), StampOf(1)) EXCEPT !.id = <<"a", "-", "1">>],
    [ApiShift("u2", FALSE, TRUE, StampOf(2), StampOf(2)) EXCEPT !.id = <<"a", "-", "1">>],
    [ApiShift("u1", FALSE, TRUE, StampOf(1), StampOf(2) + 1) EXCEPT !.id = <<"B", "2">>],
    [ApiShift("u1", TRUE, TRUE, StampOf(2), StampOf(2)) EXCEPT !.id = <<"B", "2">>],
    [ApiShift("u1", FALSE, FALSE, 0, 0) EXCEPT !.id = <<"B", "2">>] }

\* A page holds up to two shifts.
Pages == {<<>>} \cup { <<x>> : x \in PagedShifts }
           \cup { <<x, y>> : x \in PagedShifts, y \in PagedShifts }

PageLists == UNION { [1..n -> Pages] : n \in 1..MaxPages }

Reverse(seq) == [i \in DOMAIN seq |-> seq[Len(seq) + 1 - i]]

\* getMyShifts on the pages and on the same pages in the opposite order.
ApplyGetMyShifts ==
  /\ applied.fn = "none"
  /\ \E pages \in PageLists :
       applied' = [fn |-> "getMyShifts",
                   arg |-> [pages |-> pages, userId |-> "u1", now |-> 2, endDate |-> 3,
                            fault |-> NoFault],
                   value |-> [result |-> getMyShifts(pages, "u1", 2, 3, NoFault),
                              reversed |-> getMyShifts(Reverse(pages), "u1", 2, 3, NoFault)]]
  /\ UNCHANGED engineVars

\* getMyShifts when one of its requests fails.
ApplyGetMyShiftsFailing ==
  /\ applied.fn = "none"
  /\ \E pages \in UNION { [1..n -> { <<x>> : x \in PagedShifts }] : n \in 1..MaxPages },
        kind \in {"notFound", "error"} :
       \E at \in 1..(Len(pages) + 1) :
         LET fault == [at |-> at, kind |-> kind] IN
           applied' = [fn |-> "getMyShifts",
                       arg |-> [pages |-> pages, userId |-> "u1", now |-> 2, endDate |-> 3,
                                fault |-> fault],
                       value |-> [result |-> getMyShifts(pages, "u1", 2, 3, fault),
                                  reversed |-> getMyShifts(Reverse(pages), "u1", 2, 3, fault)]]
  /\ UNCHANGED engineVars

\* Ledgers processShift may find for the shift B2: no record, or a record
\* of an earlier sync.
KnownStates ==
  {EMPTY_STATE}
    \cup { setRecord(EMPTY_STATE, <<"B", "2">>,
                     [calendarEventId |-> generateEventId(<<"B", "2">>),
                      lastModified |-> st]) : st \in SourceStamps }

\* processShift on the shift B2, with or without payload, against a ledger
\* and a calendar that have or lack its record and its event.
ApplyProcessShift ==
  /\ applied.fn = "none"
  /\ \E stamp \in SourceStamps, payload \in BOOLEAN, st \in KnownStates,
        cal \in SUBSET {generateEventId(<<"B", "2">>)}, dry \in BOOLEAN,
        answer \in {"none", "update", "insert"}, honours \in BOOLEAN :
       LET shift == [Shift(<<"B", "2">>, stamp) EXCEPT !.sharedShift = payload]
           e == [state |-> st, calendar |-> cal, result |-> ZeroResult,
                 sinkLog |-> <<>>, honours |-> honours, fresh |-> FALSE]
       IN applied' = [fn |-> "processShift",
                      arg |-> [e |-> e, shift |-> shift, dryRun |-> dry,
                               answer |-> answer],
                      value |-> [event |-> shiftToCalendarEvent(shift),
                                 after |-> processShift(e, shift, dry, answer)]]
  /\ UNCHANGED engineVars

PureNext ==
  \/ ApplyLoad \/ ApplyIsActiveUserShift \/ ApplyIsInSyncWindow \/ ApplyHasShiftChanged
  \/ ApplyUpsertEvent \/ ApplyDeleteEvent \/ ApplyGenerateEventId
  \/ ApplyGetMyShifts \/ ApplyGetMyShiftsFailing \/ ApplyProcessShift

PureSpec == PureInit /\ [][PureNext]_vars

\* ================================================================ claims
\* The run reached the report step and the process exited.
Done == pc = "exited" /\ reported

FetchedIds == {shifts[i].id : i \in DOMAIN shifts}

Failed(log) == SelectSeq(log, LAMBDA c : ~c.ok)

NoMutation ==
  result.created = 0 /\ result.updated = 0 /\ result.deleted = 0

C2_DryRunMutatesNothing ==
  [][(dryRun /\ pc \in {"fetch", "process", "sweep", "report"})
       => /\ calendar' = calendar /\ file' = file /\ now' = now
          /\ pc' \notin {"save", "writing"}
          /\ (pc' # "off" => state' = state /\ sinkLog' = <<>>)]_vars

C2_Witness ==
  /\ Done /\ dryRun /\ file.kind = "json"
  /\ result.created = 1 /\ result.deleted = 1
  /\ state = file.content /\ sinkLog = <<>>

\* C3: a sink failure never aborts the run.  A completed non-dry run has
\* visited every fetched shift and every ledger id the sweep found, holds
\* one error entry per failed sink call, naming that call's shift id in
\* call order, and has saved the ledger, which holds a record for every
\* shift whose upsert succeeded; the process fails fatally only before any
\* sink call.
C3_PartialFailureIsolation ==
  /\ pc = "fatal" => (sinkLog = <<>> /\ errors = <<>> /\ shifts = <<>>)
  /\ (Done /\ ~dryRun) =>
       /\ idx = Len(shifts) + 1 /\ pending = {}
       /\ Len(errors) = Len(Failed(sinkLog))
       /\ \A i \in DOMAIN errors :
            /\ errors[i].id = Failed(sinkLog)[i].shiftId
            /\ errors[i].op = (IF Failed(sinkLog)[i].op = "upsert" THEN "sync" ELSE "delete")
       /\ file = JsonFile(state)
       /\ \A i \in DOMAIN sinkLog :
            (sinkLog[i].op = "upsert" /\ sinkLog[i].ok)
              => sinkLog[i].shiftId \in DOMAIN file.content.records

C3_Witness ==
  /\ Done /\ ~dryRun /\ Len(shifts) = 2 /\ shifts[1].id # shifts[2].id
  /\ Len(errors) = 1 /\ errors[1] = [op |-> "sync", id |-> shifts[1].id]
  /\ result.created = 1 /\ exitCode = 1
  /\ DOMAIN file.content.records = {shifts[2].id}

\* The ledger as the process loaded it, while the file is not yet rewritten.
Loaded == IF file.kind = "json" THEN file.content.records ELSE NoRecords

Deletes(log) == SelectSeq(log, LAMBDA c : c.op = "delete")

DistinctShifts(log) ==
  \A i, j \in DOMAIN log : i # j => log[i].shiftId # log[j].shiftId

\* C4: in the deletion sweep of a non-dry run, deleteEvent is called once
\* for each ledger id absent from the fetched set, with the event id stored
\* in that id's ledger record; a successful delete removes the record and
\* counts one deleted; a sweep without delete failure leaves no ledger id
\* outside the fetched set.
C4_DeletionSweep ==
  (~dryRun /\ pc \in {"sweep", "save"}) =>
    LET dels == Deletes(sinkLog) IN
      /\ {dels[i].shiftId : i \in DOMAIN dels} = ((DOMAIN Loaded) \ FetchedIds) \ pending
      /\ DistinctShifts(dels)
      /\ \A i \in DOMAIN dels :
           /\ dels[i].eventId = Loaded[dels[i].shiftId].calendarEventId
           /\ dels[i].ok <=> ~hasRecord(state, dels[i].shiftId)
      /\ result.deleted = Len(dels) - Len(Failed(dels))
      /\ (pc = "save" /\ Failed(dels) = <<>>) => getAllShiftIds(state) \subseteq FetchedIds

C4_Witness ==
  /\ ~dryRun /\ pc = "save" /\ result.deleted = 1 /\ shifts # <<>>
  /\ \E i \in DOMAIN sinkLog :
       /\ sinkLog[i].op = "delete" /\ sinkLog[i].ok
       /\ sinkLog[i].eventId # generateEventId(sinkLog[i].shiftId)
       /\ sinkLog[i].shiftId \in DOMAIN Loaded
  /\ getAllShiftIds(state) \subseteq FetchedIds

\* C5: in a non-dry run, processing a fetched shift that has a payload and
\* no ledger record issues exactly one upsert, addressed by the event id
\* derived from the shift id; when it succeeds, created grows by one and
\* the ledger gets a record holding the event id the sink returned and the
\* shift's modification stamp; when it fails, counts and ledger stay.
C5_FirstSync ==
  [][(/\ pc = "process" /\ ~dryRun /\ idx <= Len(shifts) /\ pc' # "off"
      /\ shifts[idx].sharedShift /\ ~hasRecord(state, shifts[idx].id))
       => LET s == shifts[idx]
              derived == generateEventId(s.id)
              returned == IF derived \in calendar \/ honoursIds THEN derived
                          ELSE sinkAssignedId(derived)
              call == sinkLog'[Len(sinkLog')]
          IN /\ Len(sinkLog') = Len(sinkLog) + 1
             /\ call.op = "upsert" /\ call.shiftId = s.id /\ call.eventId = derived
             /\ call.ok =>
                  /\ result' = [result EXCEPT !.created = @ + 1]
                  /\ hasRecord(state', s.id)
                  /\ getRecord(state', s.id) =
                       [calendarEventId |-> returned,
                        lastModified |-> s.lastModifiedDateTime]
                  /\ returned \in calendar'
             /\ ~call.ok => (result' = result /\ state' = state)]_vars

C5_Witness ==
  /\ pc = "process" /\ ~dryRun /\ idx = 2 /\ Loaded = NoRecords
  /\ result.created = 1 /\ Len(sinkLog) = 1 /\ sinkLog[1].ok
  /\ getRecord(state, shifts[1].id).calendarEventId # generateEventId(shifts[1].id)
  /\ getRecord(state, shifts[1].id).calendarEventId \in calendar
  /\ getRecord(state, shifts[1].id).lastModified = shifts[1].lastModifiedDateTime

\* C6: processing a fetched shift that has a ledger record and whose
\* modification time is not later than the record's counts one skipped,
\* issues no sink call, records no error and leaves ledger and calendar
\* unchanged, in both run modes.
C6_UnchangedSkipped ==
  [][(/\ pc = "process" /\ idx <= Len(shifts) /\ pc' # "off"
      /\ hasRecord(state, shifts[idx].id)
      /\ DateOf(shifts[idx].lastModifiedDateTime)
           <= DateOf(getRecord(state, shifts[idx].id).lastModified))
       => /\ result' = [result EXCEPT !.skipped = @ + 1]
          /\ sinkLog' = sinkLog /\ errors' = errors
          /\ state' = state /\ calendar' = calendar]_vars

C6_Witness ==
  /\ pc = "process" /\ ~dryRun /\ idx = 2 /\ result.skipped = 1
  /\ hasRecord(state, shifts[1].id) /\ state.records = Loaded
  /\ getRecord(state, shifts[1].id).lastModified = shifts[1].lastModifiedDateTime
  /\ sinkLog = <<>>

\* C7: within one run no shift id is the subject of two sink mutations
\* (upsertEvent or deleteEvent), whatever list the source returns.
C7_AtMostOneMutationPerShift == DistinctShifts(sinkLog)

\* Supporting fact for C7: the property holds of runs whose fetched list
\* names each shift id once.
C7_DistinctFetchedIds ==
  (\A i, j \in DOMAIN shifts : i # j => shifts[i].id # shifts[j].id)
    => DistinctShifts(sinkLog)

\* C8: a non-dry run without sink failure returns the counts the dry run
\* before it returned for the same ledger and the same fetched list.
C8_DryRunSameCounts ==
  (Done /\ ~dryRun /\ prev.kind = "dry" /\ Failed(sinkLog) = <<>>)
    => result = prev.result

\* Supporting fact for C8: the counts agree when the fetched list names
\* each shift id once.
C8_DistinctFetchedIds ==
  (/\ Done /\ ~dryRun /\ prev.kind = "dry" /\ Failed(sinkLog) = <<>>
   /\ \A i, j \in DOMAIN shifts : i # j => shifts[i].id # shifts[j].id)
    => result = prev.result

\* C9: a process that reached the report step exits with status 1 when its
\* error list is non-empty and with status 0 when it is empty.
C9_ExitStatus ==
  Done => exitCode = (IF errors # <<>> THEN 1 ELSE 0)

C9_Witness ==
  /\ Done /\ errors # <<>> /\ exitCode = 1
  /\ result.created + result.updated + result.deleted > 0

\* C10: the ledger file is never torn: at every moment it holds a complete
\* ledger (the previous one or the new one).
C10_AtomicSave == file.kind # "torn"

\* A parsed file without the schema-version key.
Legacy(f) == f.kind = "json" /\ "version" \notin f.keys

\* C11: the ledger file changes only in the migration save inside load and
\* in the save that ends a non-dry run, and no step of a run that has not
\* reached that final save leaves the file torn: a kill there finds the
\* file as the last completed save (of a run or of the migration) wrote it.
C11_PersistenceCheckpoints ==
  [][/\ file' # file =>
          \/ pc = "auth" /\ Legacy(file)
          \/ pc = "migrating"
          \/ ~dryRun /\ pc \in {"save", "writing"}
     /\ (pc \in {"auth", "migrating", "fetch", "process", "sweep"}
           /\ file.kind # "torn") => file'.kind # "torn"]_vars

\* Supporting fact for C11: the writers are as stated, and outside the
\* migration's write a run before its final save, or its kill, leaves the
\* file as it was.
C11_OutsideMigrationWrite ==
  [][/\ file' # file =>
          \/ pc = "auth" /\ Legacy(file)
          \/ pc = "migrating"
          \/ ~dryRun /\ pc \in {"save", "writing"}
     /\ (pc \in {"fetch", "process", "sweep", "report", "fatal"}
           \/ (pc = "auth" /\ ~Legacy(file))) => file' = file]_vars

\* C12: upsertEvent first issues an update addressed by eventId and, when
\* it succeeds, returns eventId with no further request; it issues a
\* create requesting the same eventId exactly when the update answered 404,
\* and then returns the id the sink's response carries; any other failure
\* of the update is thrown with no create issued; at most one update and
\* one create are issued.
C12_UpsertProtocol ==
  applied.fn = "upsertEvent" =>
    LET a == applied.arg
        v == applied.value
        n == Len(v.calls)
        u == v.calls[1]
    IN /\ n \in {1, 2}
       /\ u.api = "update" /\ u.eventId = a.eventId
       /\ u.status = "ok" => (n = 1 /\ ~v.threw /\ v.id = a.eventId)
       /\ u.status = "error" => (n = 1 /\ v.threw /\ v.calendar = a.calendar)
       /\ u.status = "404" <=> n = 2
       /\ u.status = "404" <=> (a.answer # "update" /\ a.eventId \notin a.calendar)
       /\ n = 2 =>
            /\ v.calls[2].api = "insert" /\ v.calls[2].eventId = a.eventId
            /\ v.threw <=> v.calls[2].status # "ok"
            /\ ~v.threw =>
                 /\ v.id = (IF a.honours THEN a.eventId ELSE sinkAssignedId(a.eventId))
                 /\ v.id \in v.calendar

C12_Witness ==
  /\ applied.fn = "upsertEvent"
  /\ Len(applied.value.calls) = 2
  /\ applied.value.calls[1].status = "404"
  /\ ~applied.value.threw
  /\ applied.value.id # applied.arg.eventId
  /\ applied.arg.calendar # {}

\* C13: deleteEvent completes when the sink answers 404 and when it
\* deletes, and throws on every other failure; after a delete that
\* completed, a second delete of the same event id completes too unless
\* the sink fails it with another error.
C13_IdempotentDelete ==
  applied.fn = "deleteEvent" =>
    LET a == applied.arg
        one == applied.value[1]
        two == applied.value[2]
    IN /\ \A d \in {one, two} :
            /\ Len(d.calls) = 1
            /\ d.calls[1].api = "delete" /\ d.calls[1].eventId = a.eventId
            /\ d.threw <=> d.calls[1].status = "error"
       /\ one.calls[1].status = "404" <=> (a.first # "delete" /\ a.eventId \notin a.calendar)
       /\ (~one.threw /\ a.second # "delete") =>
            (~two.threw /\ two.calls[1].status = "404" /\ two.calendar = one.calendar)

C13_Witness ==
  /\ applied.fn = "deleteEvent"
  /\ applied.arg.eventId \in applied.arg.calendar
  /\ applied.value[1].calls[1].status = "ok" /\ ~applied.value[1].threw
  /\ applied.value[2].calls[1].status = "404" /\ ~applied.value[2].threw

\* A parsed file whose schema version is newer than the supported one.
FutureVersion(f) ==
  f.kind = "json" /\ "version" \in f.keys /\ f.content.version > CURRENT_VERSION

\* C14: on a ledger file of a newer schema version load throws; the file
\* and the in-memory ledger stay as they were, no shift is fetched, no
\* sink call is made, nothing is saved, and the process exits with status 1.
C14_FutureVersionFatal ==
  [][FutureVersion(file) =>
       /\ file' = file /\ state' = EMPTY_STATE
       /\ calendar' = calendar /\ now' = now
       /\ shifts' = <<>> /\ sinkLog' = <<>> /\ ~reported'
       /\ (pc = "auth" /\ pc' # "off") => pc' = "fatal"
       /\ pc' \in {"off", "auth", "fatal", "exited"}
       /\ pc' = "exited" => exitCode' = 1]_vars

C14_Witness ==
  /\ FutureVersion(file) /\ pc = "exited" /\ exitCode = 1
  /\ file.content.records # NoRecords /\ upstream # <<>>

\* C15: load on a legacy file makes the in-memory ledger the legacy
\* lastSync and the legacy records at the current schema version, and its
\* next step writes that ledger to the file before anything is fetched;
\* lastSync is the legacy value, not the clock's.
C15_LegacyMigration ==
  [][/\ (pc = "auth" /\ Legacy(file) /\ pc' # "off") =>
          /\ pc' = "migrating"
          /\ state' = [version |-> CURRENT_VERSION,
                       lastSync |-> file.content.lastSync,
                       records |-> file.content.records]
     /\ (pc = "migrating" /\ pc' # "off") =>
          /\ pc' = "fetch" /\ state' = state /\ now' = now
          /\ file' = [kind |-> "json", content |-> state, keys |-> Keys]]_vars

C15_Witness ==
  /\ pc = "migrating" /\ state.version = CURRENT_VERSION
  /\ state.lastSync = 1 /\ state.records # NoRecords /\ now = 1

\* C17: load on a missing ledger file does not throw, leaves the empty
\* ledger at the current schema version in memory and writes no file.
C17_MissingFile ==
  [][(pc = "auth" /\ file.kind = "missing" /\ pc' # "off") =>
       /\ pc' = "fetch"
       /\ state' = [version |-> CURRENT_VERSION, lastSync |-> 0, records |-> NoRecords]
       /\ file' = file]_vars

C17_Witness ==
  /\ pc = "fetch" /\ file.kind = "missing" /\ upstream # <<>>
  /\ getAllShiftIds(state) = {} /\ state.version = CURRENT_VERSION

C18_IsActiveUserShift ==
  applied.fn = "isActiveUserShift" =>
    (applied.value <=>
       /\ applied.arg.shift.userId = applied.arg.userId
       /\ applied.arg.shift.isStagedForDeletion = FALSE
       /\ applied.arg.shift.sharedShift)

C18_Witness ==
  /\ applied.fn = "isActiveUserShift" /\ applied.value
  /\ applied.arg.shift.userId = "u2" /\ applied.arg.userId = "u2"

\* C19: isInSyncWindow is false for a shift without payload and otherwise
\* true exactly when the shift's end instant is not before now and its
\* start instant is not after the horizon's end; the instants are those
\* the payload's timestamps denote, in either textual form.
C19_IsInSyncWindow ==
  applied.fn = "isInSyncWindow" =>
    LET a == applied.arg IN
      IF ~a.shift.sharedShift THEN applied.value = FALSE
      ELSE applied.value <=> (a.end >= a.now /\ a.start <= a.endDate)

C19_Witness ==
  /\ applied.fn = "isInSyncWindow" /\ applied.value
  /\ applied.arg.end = applied.arg.now /\ applied.arg.start = applied.arg.endDate
  /\ applied.arg.shift.endDateTime # StampOf(applied.arg.end)

\* C20: hasShiftChanged is true when no prior timestamp is known and
\* otherwise true exactly when the instant of the shift's modification
\* timestamp is strictly later than the instant of the known one,
\* whatever the textual forms of the two.
C20_HasShiftChanged ==
  applied.fn = "hasShiftChanged" =>
    LET a == applied.arg IN
      applied.value <=> (~a.known \/ a.modified > a.last)

C20_Witness ==
  /\ applied.fn = "hasShiftChanged" /\ ~applied.value /\ applied.arg.known
  /\ applied.arg.modified = applied.arg.last
  /\ applied.arg.shift.lastModifiedDateTime > applied.arg.lastModified

\* Lowercase letters and digits.
LowerAlnum == {"s", "h", "i", "f", "t", "a", "b", "1", "2"}

\* C21: for every shift id, the empty one and those of punctuation or
\* digits only included, generateEventId gives the same event id on every
\* call, and that id starts with "shift", so is not empty, and holds only
\* lowercase letters and digits.
C21_EventIdWellFormed ==
  applied.fn = "generateEventId" =>
    LET v == applied.value.a IN
      /\ v = applied.value.again
      /\ Len(v) >= 5 /\ SubSeq(v, 1, 5) = <<"s", "h", "i", "f", "t">>
      /\ \A i \in DOMAIN v : v[i] \in LowerAlnum

C21_Witness ==
  /\ applied.fn = "generateEventId"
  /\ applied.arg.a = <<"-", "A">> /\ applied.value.a = <<"s", "h", "i", "f", "t", "a">>
  /\ applied.arg.b = <<>> /\ applied.value.b = <<"s", "h", "i", "f", "t">>

\* C22: two distinct shift ids derive two distinct event ids.
C22_CollisionFree ==
  applied.fn = "generateEventId" =>
    (applied.arg.a # applied.arg.b => applied.value.a # applied.value.b)

\* Supporting fact for C22: shift ids made of lowercase letters and digits
\* only derive distinct event ids.
C22_LowerAlnumIds ==
  (/\ applied.fn = "generateEventId"
   /\ \A i \in DOMAIN applied.arg.a : applied.arg.a[i] \in LowerAlnum
   /\ \A i \in DOMAIN applied.arg.b : applied.arg.b[i] \in LowerAlnum)
    => (applied.arg.a # applied.arg.b => applied.value.a # applied.value.b)

\* C23: when the source answers a request of getMyShifts with not-found,
\* sync goes on with an empty fetched list and no error, and the run
\* reaches its report; on any other source failure sync throws: the
\* process exits with status 1 without a sink call, a ledger save or a
\* report.
C23_SourceNotFound ==
  [][/\ (pc = "fetch" /\ pc' # "off") =>
          /\ sourceAnswer = "ok" => (pc' = "process" /\ shifts' = upstream)
          /\ sourceAnswer = "notFound" =>
               (pc' = "process" /\ shifts' = <<>> /\ errors' = <<>>)
          /\ sourceAnswer = "error" => pc' = "fatal"
     /\ (sourceAnswer = "notFound"
           /\ pc \in {"fetch", "process", "sweep", "save", "writing", "report"}) =>
          /\ pc' # "fatal"
          /\ pc' = "exited" => reported'
     /\ (sourceAnswer = "error" /\ pc \in {"fetch", "fatal"}) =>
          /\ sinkLog' = <<>> /\ calendar' = calendar /\ file' = file /\ now' = now
          /\ pc' \in {"off", "fatal", "exited"}
          /\ pc' = "exited" => (exitCode' = 1 /\ ~reported')]_vars

C23_Witness ==
  /\ pc = "exited" /\ reported /\ exitCode = 0 /\ ~dryRun
  /\ sourceAnswer = "notFound" /\ upstream # <<>> /\ shifts = <<>>
  /\ result.deleted = 1 /\ calendar = {}

\* Supporting fact for C23: whichever request of getMyShifts fails, a
\* not-found gives the empty result without throwing and another error is
\* thrown.
C23_AnyRequest ==
  (applied.fn = "getMyShifts" /\ applied.arg.fault.at > 0) =>
    LET v == applied.value.result IN
      /\ v.threw <=> applied.arg.fault.kind = "error"
      /\ v.shiftsToSync = <<>> /\ v.allActiveShiftIds = {}

\* The shifts on the pages, and how often x is in a sequence.
OnPages(pages) == UNION { {pages[k][i] : i \in DOMAIN pages[k]} : k \in DOMAIN pages }

Count(seq, x) == Cardinality({i \in DOMAIN seq : seq[i] = x})

\* C27: when no request fails, getMyShifts does not throw; shiftsToSync
\* holds each shift of any page that is the owner's, not staged for
\* deletion, with payload and in the window, as often as the pages do, and
\* no other shift; allActiveShiftIds is the set of ids of the shifts of any
\* page that are the owner's, not staged and with payload; with the pages
\* in the opposite order the same shifts and ids result.
C27_PagedFetch ==
  (applied.fn = "getMyShifts" /\ applied.arg.fault.at = 0) =>
    LET a == applied.arg
        v == applied.value.result
        w == applied.value.reversed
        active(x) == x.userId = a.userId /\ ~x.isStagedForDeletion /\ x.sharedShift
        inWindow(x) == DateOf(x.endDateTime) >= a.now /\ DateOf(x.startDateTime) <= a.endDate
    IN /\ ~v.threw /\ ~w.threw
       /\ \A x \in PagedShifts :
            Count(v.shiftsToSync, x) =
              (IF active(x) /\ inWindow(x)
               THEN Cardinality({<<k, i>> \in (DOMAIN a.pages) \X (1..2) :
                                   i \in DOMAIN a.pages[k] /\ a.pages[k][i] = x})
               ELSE 0)
       /\ v.allActiveShiftIds = {x.id : x \in {y \in OnPages(a.pages) : active(y)}}
       /\ \A x \in PagedShifts : Count(w.shiftsToSync, x) = Count(v.shiftsToSync, x)
       /\ w.allActiveShiftIds = v.allActiveShiftIds

C27_Witness ==
  /\ applied.fn = "getMyShifts" /\ applied.arg.fault.at = 0
  /\ Len(applied.arg.pages) = 2
  /\ Len(applied.arg.pages[1]) = 2 /\ Len(applied.arg.pages[2]) = 2
  /\ Len(applied.value.result.shiftsToSync) = 2
  /\ applied.value.result.shiftsToSync[1] \in OnPages(<<applied.arg.pages[1]>>)
  /\ applied.value.result.shiftsToSync[2] \in OnPages(<<applied.arg.pages[2]>>)
  /\ applied.value.result.shiftsToSync # applied.value.reversed.shiftsToSync
  /\ Cardinality(applied.value.result.allActiveShiftIds) = 2

\* C24: for a shift without payload shiftToCalendarEvent gives none, and
\* processShift counts one skipped and nothing else, throws nothing,
\* issues no sink call and leaves ledger and calendar as they were, in a
\* dry run and in a real one, whether or not the ledger has a record.
C24_NoPayloadSkipped ==
  (applied.fn = "processShift" /\ ~applied.arg.shift.sharedShift) =>
    LET e == applied.arg.e
        r == applied.value.after
    IN /\ ~applied.value.event.mappable
       /\ ~r.threw
       /\ r.result = [created |-> 0, updated |-> 0, deleted |-> 0, skipped |-> 1]
       /\ r.sinkLog = <<>>
       /\ r.state = e.state /\ r.calendar = e.calendar

C24_Witness ==
  /\ applied.fn = "processShift" /\ ~applied.arg.shift.sharedShift
  /\ ~applied.arg.dryRun /\ applied.arg.answer = "none"
  /\ ~hasRecord(applied.arg.e.state, applied.arg.shift.id)
  /\ applied.value.after.result.skipped = 1

\* C29: a shift whose upsert succeeded is counted once: as created when
\* the ledger had no record for it, as updated when it had one, whether
\* the event was on the calendar (update served) or not (create served).
C29_CreatedVersusUpdated ==
  (/\ applied.fn = "processShift"
   /\ Len(applied.value.after.sinkLog) = 1 /\ applied.value.after.sinkLog[1].ok) =>
    LET e == applied.arg.e
        r == applied.value.after
        existing == applied.arg.shift.id \in DOMAIN e.state.records
    IN r.result = [created |-> IF existing THEN 0 ELSE 1,
                   updated |-> IF existing THEN 1 ELSE 0,
                   deleted |-> 0, skipped |-> 0]

\* No record, yet the event is on the calendar: update serves, created counts.
C29_Witness ==
  /\ applied.fn = "processShift"
  /\ Len(applied.value.after.sinkLog) = 1 /\ applied.value.after.sinkLog[1].ok
  /\ ~hasRecord(applied.arg.e.state, applied.arg.shift.id)
  /\ applied.value.after.sinkLog[1].eventId \in applied.arg.e.calendar
  /\ applied.value.after.calendar = applied.arg.e.calendar
  /\ applied.value.after.result.created = 1

\* A real run is about to process a shift whose ledger record names an
\* event that is on the calendar.
ResyncOfRecorded ==
  /\ pc = "process" /\ ~dryRun /\ idx <= Len(shifts)
  /\ hasRecord(state, shifts[idx].id)
  /\ getRecord(state, shifts[idx].id).calendarEventId \in calendar

\* C25: whatever id the sink returned for a shift's event, a later re-sync
\* of the shift acts on that one event: the step adds no event to the
\* calendar and the ledger keeps naming the same event.
C25_SinkAssignedIds ==
  [][ResyncOfRecorded =>
        /\ calendar' \subseteq calendar
        /\ (hasRecord(state', shifts[idx].id) =>
              getRecord(state', shifts[idx].id).calendarEventId
                = getRecord(state, shifts[idx].id).calendarEventId)]_vars

\* C25, where it holds: against a sink that honours the requested id the
\* re-sync adds no event and the record keeps its event id.
C25_HonouredIds ==
  [][(ResyncOfRecorded /\ honoursIds
        /\ getRecord(state, shifts[idx].id).calendarEventId
             = generateEventId(shifts[idx].id)) =>
        /\ calendar' \subseteq calendar
        /\ (hasRecord(state', shifts[idx].id) =>
              getRecord(state', shifts[idx].id).calendarEventId
                = getRecord(state, shifts[idx].id).calendarEventId)]_vars

\* C25, the returned id is recorded and the deletion uses it: a shift's
\* record written by a successful upsert names an event on the calendar.
C25_RecordsReturnedId ==
  [][(pc = "process" /\ ~dryRun /\ idx <= Len(shifts)
        /\ Len(sinkLog') > Len(sinkLog) /\ sinkLog'[Len(sinkLog')].ok) =>
        /\ hasRecord(state', shifts[idx].id)
        /\ getRecord(state', shifts[idx].id).calendarEventId \in calendar']_vars

\* The phases of a run as its state shows them: no upsert is logged after
\* a delete; while the sweep runs, and from the save on, every fetched
\* shift has been processed; from the save on the sweep is over.
PhasesInOrder ==
  /\ \A i, j \in DOMAIN sinkLog :
       (sinkLog[i].op = "delete" /\ sinkLog[j].op = "upsert") => j < i
  /\ (pc \in {"sweep", "save", "writing"} \/ pending # {}) => idx > Len(shifts)
  /\ pc \in {"save", "writing"} => pending = {}

\* C26: in every run each upsert is issued before the first delete, the
\* sweep reads the ledger's ids (pending is set) only once all fetched
\* shifts were processed, the ledger file is written in the save phase
\* only, that phase is entered once, from the finished sweep, and no sink
\* call follows it.
C26_PhaseOrdering ==
  [][/\ PhasesInOrder'
     /\ pending' \ pending # {} => (pc = "process" /\ idx > Len(shifts))
     /\ file' # file => pc \in {"save", "writing"}
     /\ (pc' = "save" /\ pc # "save") => (pc = "sweep" /\ pending = {})
     /\ (pc \in {"save", "writing", "report"} /\ pc' # "off") =>
          (pc' # "save" /\ sinkLog' = sinkLog /\ calendar' = calendar)]_vars

\* A run that upserted one shift, then deleted another, and has saved.
C26_Witness ==
  /\ pc = "report" /\ ~dryRun /\ file = JsonFile(state)
  /\ Len(shifts) = 2
  /\ \E i, j \in DOMAIN sinkLog :
       i < j /\ sinkLog[i].op = "upsert" /\ sinkLog[j].op = "delete"

\* The next run would attempt the failed item again: a shift whose upsert
\* failed is not skipped against the ledger st, an id whose delete failed
\* is still visited by the sweep.
AttemptedAgain(err, st) ==
  IF err.op = "sync"
  THEN \A i \in DOMAIN shifts :
         shifts[i].id = err.id =>
           (hasRecord(st, err.id) =>
              hasShiftChanged(shifts[i], getRecord(st, err.id).lastModified))
  ELSE err.id \in sweepIds(st, shifts)

\* With a real run over and its ledger saved, a run on the saved file
\* attempts each failed item again.
FailedItemsRetried ==
  (pc = "report" /\ ~dryRun) =>
    \A k \in DOMAIN errors : AttemptedAgain(errors[k], load(file).state)

\* C28: a step of a real run that records a failure (a failed upsert, or
\* a delete failed with an error other than not-found) leaves every ledger
\* record and every counter as they were; and with the run over and the
\* ledger saved, a run on the saved file attempts each failed item again.
C28_FailedCallLeavesLedger ==
  [][/\ (~dryRun /\ pc \in {"process", "sweep"} /\ Len(errors') > Len(errors)) =>
          (state' = state /\ result' = result)
     /\ FailedItemsRetried']_vars

\* A shift edited since its record was written, whose upsert failed: the
\* saved ledger still carries the old lastModified.
C28_Witness ==
  /\ pc = "report" /\ ~dryRun /\ file = JsonFile(state)
  /\ Len(errors) = 1 /\ errors[1].op = "sync"
  /\ hasRecord(state, errors[1].id)
  /\ getRecord(state, errors[1].id).lastModified # shifts[1].lastModifiedDateTime
  /\ result = ZeroResult

\* No fetched shift is older than the ledger record the run loaded for it.
ModifiedAtNotDecreased ==
  \A i \in DOMAIN shifts :
    shifts[i].id \in DOMAIN Loaded =>
      DateOf(shifts[i].lastModifiedDateTime)
        >= DateOf(Loaded[shifts[i].id].lastModified)

\* C30: when a real run has finished its sweep without any error, and no
\* fetched shift is older than its loaded record, the ledger it is about
\* to save has a record for exactly the fetched shifts that carry a
\* payload, each with the fetched shift's modification time.
C30_ErrorFreePostCondition ==
  (pc = "save" /\ ~dryRun /\ errors = <<>> /\ ModifiedAtNotDecreased) =>
    /\ getAllShiftIds(state)
         = {shifts[i].id : i \in {j \in DOMAIN shifts : shifts[j].sharedShift}}
    /\ \A i \in DOMAIN shifts :
         hasRecord(state, shifts[i].id) =>
           getRecord(state, shifts[i].id).lastModified
             = shifts[i].lastModifiedDateTime

\* A run that re-synced an edited shift and swept the record of another.
C30_Witness ==
  /\ pc = "save" /\ ~dryRun /\ errors = <<>> /\ ModifiedAtNotDecreased
  /\ result.updated = 1 /\ result.deleted = 1
  /\ Len(shifts) = 1
  /\ DOMAIN Loaded # getAllShiftIds(state)
  /\ Loaded[shifts[1].id].lastModified # shifts[1].lastModifiedDateTime

\* The entries of a run's error list that one of the two loops wrote.
ErrorsOf(op) == SelectSeq(errors, LAMBDA err : err.op = op)

\* The items of the first loop classified so far.
Classified ==
  result.created + result.updated + result.skipped + Len(ErrorsOf("sync"))

\* The ids of the second loop classified so far.
Swept == result.deleted + Len(ErrorsOf("delete"))

\* C36: each fetched shift is counted exactly once, as created, updated,
\* skipped or as a sync error, and each ledger id absent from the fetched
\* set when the sweep starts exactly once, as deleted or as a delete
\* error: while the loops run the counts follow their positions, and in
\* every completed run, dry or real, they add up to the two totals.
C36_ClassifiedOnce ==
  /\ pc = "process" => (Classified = idx - 1 /\ Swept = 0)
  /\ pc = "sweep" =>
       /\ Classified = Len(shifts)
       /\ Swept + Cardinality(pending)
            = Cardinality((DOMAIN Loaded) \ FetchedIds)
  /\ (pc = "save" \/ (pc = "report" /\ dryRun)) =>
       /\ Classified = Len(shifts)
       /\ Swept = Cardinality((DOMAIN Loaded) \ FetchedIds)
  /\ (pc = "report" /\ ~dryRun) =>
       /\ Classified = Len(shifts)
       /\ Swept = Len(Deletes(sinkLog))

\* A completed real run with an item in each class but skipped: one shift
\* created, one failed, one record deleted or failed to delete.
C36_Witness ==
  /\ pc = "report" /\ ~dryRun
  /\ Len(shifts) = 2 /\ Len(ErrorsOf("sync")) = 1 /\ result.created = 1
  /\ Len(ErrorsOf("delete")) = 1 /\ result.deleted = 0

\* C35: when the source answers not-found the fetched set is empty, so a
\* real run calls deleteEvent once for every shift id of the ledger, with
\* the recorded event id, and keeps exactly the records whose delete
\* failed; a dry run calls nothing and reports every record as deleted.
C35_NotFoundSweepsLedger ==
  (sourceAnswer = "notFound"
     /\ (pc = "save" \/ (pc = "report" /\ dryRun))) =>
    /\ shifts = <<>>
    /\ dryRun => (result.deleted = Cardinality(DOMAIN Loaded) /\ sinkLog = <<>>
                    /\ getAllShiftIds(state) = DOMAIN Loaded)
    /\ ~dryRun =>
         /\ {sinkLog[i].shiftId : i \in DOMAIN sinkLog} = DOMAIN Loaded
         /\ \A i \in DOMAIN sinkLog :
              /\ sinkLog[i].op = "delete"
              /\ sinkLog[i].eventId = Loaded[sinkLog[i].shiftId].calendarEventId
         /\ getAllShiftIds(state)
              = {sinkLog[i].shiftId : i \in {j \in DOMAIN sinkLog : ~sinkLog[j].ok}}
         /\ result.deleted = Len(sinkLog) - Len(Failed(sinkLog))

\* The source still lists the shift the ledger knows, answers not-found,
\* and the real run has deleted the shift's event and record.
C35_Witness ==
  /\ sourceAnswer = "notFound" /\ pc = "save" /\ ~dryRun
  /\ upstream # <<>> /\ upstream[1].id \in DOMAIN Loaded
  /\ result.deleted = 1 /\ getAllShiftIds(state) = {} /\ calendar = {}

\* The events on the calendar cal that were created for the shift: under
\* the derived id, or under an id the sink assigned to a create for it.
eventsOfShift(cal, shiftId) ==
  {ev \in cal :
     \/ ev = generateEventId(shiftId)
     \/ \E k \in 1..MaxAssigned : ev = assignedId(generateEventId(shiftId), k)}

\* C33: once a shift is no longer fetched, a completed real run without
\* error leaves no event of that shift on the calendar, whether or not the
\* run that created the event lived to save its record.
C33_NoOrphanedEvents ==
  (pc = "report" /\ ~dryRun /\ errors = <<>>) =>
    \A ev \in calendar : \E i \in DOMAIN shifts : ev \in eventsOfShift(calendar, shifts[i].id)

\* C33, where it holds: the events the loaded ledger names for shifts no
\* longer fetched are off the calendar when the sweep ended without error.
C33_RecordedEventsSwept ==
  (pc = "save" /\ ~dryRun /\ errors = <<>>) =>
    \A id \in (DOMAIN Loaded) \ FetchedIds : Loaded[id].calendarEventId \notin calendar

\* The event ids the records of a ledger name.
recordedEvents(records) == {records[id].calendarEventId : id \in DOMAIN records}

\* C31: from an empty ledger and an empty calendar, with a sink that
\* honours the requested ids and no process killed, whenever no process
\* runs, and so after every completed real run, the events on the calendar
\* are exactly the events the ledger file's records name.
C31_LedgerMirrorsCalendar ==
  (Idle \/ pc = "report") => calendar = recordedEvents(Loaded)

\* C31, where it holds: no event is on the calendar without a record
\* naming it.
C31_EventsAreRecorded ==
  (Idle \/ pc = "report") => calendar \subseteq recordedEvents(Loaded)

\* C31, where it holds: the ledger mirrors the calendar while the shift
\* ids are those of ShiftIds, which derive distinct event ids.
C31_DistinctEventIds ==
  ((Idle \/ pc = "report")
     /\ (\A i \in DOMAIN upstream : upstream[i].id \in ShiftIds)
     /\ DOMAIN Loaded \subseteq ShiftIds
     /\ calendar \subseteq {generateEventId(id) : id \in ShiftIds}) =>
    calendar = recordedEvents(Loaded)

\* The shift the loop is about to process already has its event on the
\* calendar but no record: a run that created the event was killed.
ResumedUpsert ==
  /\ pc = "process" /\ ~dryRun /\ idx <= Len(shifts)
  /\ ~hasRecord(state, shifts[idx].id)
  /\ generateEventId(shifts[idx].id) \in calendar

\* The sweep visits id, whose record names an event no longer on the
\* calendar: a run that deleted the event was killed.
RepeatedDelete(id) ==
  /\ pc = "sweep" /\ ~dryRun /\ id \in pending
  /\ hasRecord(state, id)
  /\ getRecord(state, id).calendarEventId \notin calendar

\* C32: with a sink that honours the requested ids, however runs are
\* killed and run again, the calendar holds at most one event for each
\* shift id and no run records an error: the upsert of a shift whose event
\* a killed run created updates that event and records it, and the delete
\* of an event a killed run removed removes the record and counts one
\* deleted.
C32_RerunAfterKill ==
  [][/\ \A id \in ShiftIds : Cardinality(eventsOfShift(calendar', id)) <= 1
     /\ errors' = <<>>
     /\ (ResumedUpsert /\ pc' # "off") =>
          /\ calendar' = calendar
          /\ getRecord(state', shifts[idx].id).calendarEventId
               = generateEventId(shifts[idx].id)
          /\ result'.created = result.created + 1
     /\ \A id \in ShiftIds :
          (RepeatedDelete(id) /\ id \notin pending' /\ pc' # "off") =>
            /\ ~hasRecord(state', id)
            /\ calendar' = calendar
            /\ result'.deleted = result.deleted + 1]_vars

\* No ledger file, yet the run has re-synced its first shift and finds the
\* event of its second already on the calendar: both were created by a
\* run that was killed before its save.
C32_Witness ==
  /\ pc = "process" /\ ~dryRun /\ idx = 2 /\ Len(shifts) = 2
  /\ Loaded = NoRecords
  /\ Len(sinkLog) = 1 /\ sinkLog[1].ok /\ result.created = 1
  /\ hasRecord(state, shifts[1].id)
  /\ ResumedUpsert

\* Two real runs have both reached their report and exited.
BothFinished ==
  /\ pc = "exited" /\ reported /\ ~dryRun
  /\ other.pc = "exited" /\ other.reported /\ ~other.dryRun

\* C38: when two real runs overlap on one ledger file and one calendar,
\* the calendar never holds two events for one shift, and once both runs
\* have finished every event on the calendar has a record in the ledger
\* file.
C38_OverlappingRuns ==
  /\ \A id \in ShiftIds : Cardinality(eventsOfShift(calendar, id)) <= 1
  /\ BothFinished => calendar \subseteq recordedEvents(Loaded)

\* C38, where it holds: the event id is derived from the shift id and the
\* sink keeps it, so overlapping runs never put two events for one shift
\* on the calendar.
C38_OneEventPerShift ==
  \A id \in ShiftIds : Cardinality(eventsOfShift(calendar, id)) <= 1

\* A run that reports nothing created, updated or deleted and no error.
ZeroReport ==
  /\ result.created = 0 /\ result.updated = 0 /\ result.deleted = 0
  /\ errors = <<>>

\* C34: with the upstream shifts unchanged and no sink call failing for
\* ever, the real runs started on a ledger file that loads reach a run
\* that reports zero created, updated, deleted and errors, every run after
\* it reports the same, and such runs keep being reported.
C34_EventualConvergence ==
  ~load(file).threw =>
    /\ <>[](pc = "report" => ZeroReport)
    /\ []<>(pc = "report" /\ ~dryRun /\ ZeroReport)

\* A real run that reports all zero, right after a real run that did
\* create, update or delete something.
C34_Witness ==
  /\ pc = "report" /\ ~dryRun /\ ZeroReport /\ Len(shifts) = 1
  /\ prev.kind = "real" /\ prev.nerrors = 0
  /\ prev.result.created + prev.result.updated + prev.result.deleted > 0

\* C37: a started process whose calls return or fail reaches its exit,
\* through the report or through a fatal error; the sink calls of a run
\* never exceed the fetched shifts plus the ledger's records; and no item
\* is visited twice: the loop over the shifts only moves forward, by one
\* shift a step, each sweep step takes one id off the ids still to visit,
\* and once the sweep has begun the loop is not entered again.
C37_EveryRunTerminates ==
  /\ (pc = "auth") ~> (pc = "exited")
  /\ [](pc \in {"process", "sweep", "save"} =>
          Len(sinkLog) <= Len(shifts) + Cardinality(DOMAIN Loaded))
  /\ [][/\ (pc = "process" /\ pc' = "process") => idx' = idx + 1
        /\ (pc = "sweep" /\ pc' = "sweep") =>
             /\ pending' \subseteq pending
             /\ Cardinality(pending') = Cardinality(pending) - 1
        /\ pc \in {"sweep", "save", "writing", "report"} =>
             (pc' # "process" /\ idx' \in {idx, 1})
        /\ pc \in {"save", "writing", "report"} => pc' # "sweep"]_vars

\* A real run in which the one sink call failed has reported and exited.
C37_Witness ==
  /\ pc = "exited" /\ reported /\ ~dryRun
  /\ Len(sinkLog) = 1 /\ Len(errors) = 1 /\ exitCode = 1

====
